---- MODULE Spec2Model ----
(***************************************************************************)
(* Model of the threat-scanner scoring engine: the three channel analyzers *)
(* analyze_email, analyze_url and analyze_sms of backend/core_engine.      *)
(* Strings are TLA+ strings; a character is a string of length one.        *)
(* The functions are synchronous and keep no state between calls; the only *)
(* state they share is the rule file of each channel, which every call     *)
(* reads once.  Spec is the engine as the repository ships it, without     *)
(* rule files: every analyzer call is one atomic action.  RulesSpec is the *)
(* engine while rule files are written: a call is the step that loads the  *)
(* rules followed by the step that runs the checks.  LevSpec is            *)
(* levenshtein_distance called on its own, and StatsSpec the statistics    *)
(* that backend/app.py keeps of the scans: calls of update_stats.          *)
(***************************************************************************)
EXTENDS Integers, Sequences, FiniteSets, TLC

VARIABLES
    call,      \* the arguments of the last analyzer call
    result,    \* what that call returned (or that it raised)
    locals,    \* the call's local variables `score` and `reasons` at its end
    files,     \* rules/<channel>_rules.json: what each rule file holds
    loaded,    \* the call's local variable `rules`, and the file it was read from
    scan_stats \* app.scan_stats: the counters and latest scans of the backend

vars == <<call, result, locals, files, loaded, scan_stats>>

(***************************************************************************)
(* Python string primitives                                                *)
(***************************************************************************)
Char(s, i) == SubSeq(s, i, i)

Chars(s) == {Char(s, i) : i \in 1..Len(s)}

\* `sub in s`
In(sub, s) == \E i \in 1..(Len(s) - Len(sub) + 1) : SubSeq(s, i, i + Len(sub) - 1) = sub

\* s.find(sub): the first index (1-based) of sub in s, 0 when absent
Find(sub, s) ==
    IF In(sub, s)
    THEN CHOOSE i \in 1..(Len(s) - Len(sub) + 1) :
            /\ SubSeq(s, i, i + Len(sub) - 1) = sub
            /\ \A j \in 1..(i - 1) : SubSeq(s, j, j + Len(sub) - 1) # sub
    ELSE 0

StartsWith(s, p) == Len(p) <= Len(s) /\ SubSeq(s, 1, Len(p)) = p

EndsWith(s, p) == Len(p) <= Len(s) /\ SubSeq(s, Len(s) - Len(p) + 1, Len(s)) = p

UpperLetters == "ABCDEFGHIJKLMNOPQRSTUVWXYZ"

LowerLetters == "abcdefghijklmnopqrstuvwxyz"

DigitChars == {"0", "1", "2", "3", "4", "5", "6", "7", "8", "9"}

UpperChars == Chars(UpperLetters)

AlphaChars == Chars(UpperLetters) \cup Chars(LowerLetters)

\* c.isupper() of an ASCII character
IsUpper(c) == c \in UpperChars

IsAlpha(c) == c \in AlphaChars

\* \w of the re module on ASCII text
IsWord(c) == IsAlpha(c) \/ c \in DigitChars \/ c = "_"

\* \s of the re module, and what str.strip() removes
IsSpace(c) == c \in {" ", "\t", "\n", "\r"}

LowerOf == [c \in UpperChars |-> Char(LowerLetters, Find(c, UpperLetters))]

LowerChar(c) == IF IsUpper(c) THEN LowerOf[c] ELSE c

RECURSIVE Lower(_)
\* s.lower(), computed by halves
Lower(s) ==
    IF Len(s) = 0 THEN ""
    ELSE IF Len(s) = 1 THEN LowerChar(s)
    ELSE Lower(SubSeq(s, 1, Len(s) \div 2)) \o Lower(SubSeq(s, Len(s) \div 2 + 1, Len(s)))

RECURSIVE LStrip(_)
LStrip(s) == IF s # "" /\ IsSpace(Head(s)) THEN LStrip(Tail(s)) ELSE s

RECURSIVE RStrip(_)
RStrip(s) ==
    IF s # "" /\ IsSpace(Char(s, Len(s))) THEN RStrip(SubSeq(s, 1, Len(s) - 1)) ELSE s

\* s.strip()
Strip(s) == RStrip(LStrip(s))

RECURSIVE Split(_, _)
\* s.split(sep) for a non-empty separator: always at least one piece
Split(s, sep) ==
    LET Cut(i) == IF i = 0 THEN <<s>>
                  ELSE <<SubSeq(s, 1, i - 1)>> \o Split(SubSeq(s, i + Len(sep), Len(s)), sep)
    IN  Cut(Find(sep, s))

RECURSIVE Replace(_, _, _)
\* s.replace(old, new) for a non-empty old
Replace(s, old, new) ==
    LET Cut(i) == IF i = 0 THEN s
                  ELSE SubSeq(s, 1, i - 1) \o new
                         \o Replace(SubSeq(s, i + Len(old), Len(s)), old, new)
    IN  Cut(Find(old, s))

RECURSIVE Join(_, _)
\* sep.join(parts)
Join(parts, sep) ==
    IF parts = <<>> THEN ""
    ELSE IF Len(parts) = 1 THEN parts[1]
    ELSE parts[1] \o sep \o Join(Tail(parts), sep)

Range(seq) == {seq[i] : i \in 1..Len(seq)}

Min2(a, b) == IF a <= b THEN a ELSE b

Max2(a, b) == IF a >= b THEN a ELSE b

(***************************************************************************)
(* Scores, reasons and indicators shared by the three analyzers            *)
(***************************************************************************)
\* Scores are floats in the code and every weight applied is a multiple of
\* one half (email: WEIGHTS[...] * 0.5, sms: WEIGHTS[...] * (count / 2)), so
\* the running score is held in units of 1/SCALE point.
SCALE == 2

Pts(n) == n * SCALE

\* a reason string: the source line that appends it, its fixed text and the
\* values formatted into it
Reason(line, text, args) == [line |-> line, text |-> text, args |-> args]

NoIndicators == [k \in {} |-> TRUE]

\* the outcome of one check: the weight added to score, the reasons appended
\* and the indicator keys assigned
Check(w, reasons, ind) == [w |-> w, reasons |-> reasons, ind |-> ind, error |-> ""]

Skip == Check(0, <<>>, NoIndicators)

\* WEIGHTS[name] on a table that has no such key: the KeyError ends the call
KeyErrorCheck == [w |-> 0, reasons |-> <<>>, ind |-> NoIndicators, error |-> "KeyError"]

\* a check that reads WEIGHTS[name] when it fires
Weighted(WEIGHTS, name, fires, check) ==
    IF fires /\ name \notin DOMAIN WEIGHTS THEN KeyErrorCheck ELSE check

RECURSIVE RunChecksClamped(_)
\* the checks of a call with the score kept within 0..100 after every check
RunChecksClamped(checks) ==
    IF checks = <<>>
    THEN [score |-> 0, reasons |-> <<>>, indicators |-> NoIndicators, error |-> ""]
    ELSE LET before == RunChecksClamped(SubSeq(checks, 1, Len(checks) - 1))
             last == checks[Len(checks)]
         IN  [score |-> Max2(0, Min2(Pts(100), before.score + last.w)),
              reasons |-> before.reasons \o last.reasons,
              indicators |-> last.ind @@ before.indicators,
              error |-> IF before.error # "" THEN before.error ELSE last.error]

RECURSIVE RunChecks(_)
\* the checks of a call in evaluation order: score += w, reasons.append(...),
\* indicators[key] = value (a later assignment replaces an earlier one)
RunChecks(checks) ==
    IF checks = <<>>
    THEN [score |-> 0, reasons |-> <<>>, indicators |-> NoIndicators, error |-> ""]
    ELSE LET before == RunChecks(SubSeq(checks, 1, Len(checks) - 1))
             last == checks[Len(checks)]
         IN  [score |-> before.score + last.w,
              reasons |-> before.reasons \o last.reasons,
              indicators |-> last.ind @@ before.indicators,
              error |-> IF before.error # "" THEN before.error ELSE last.error]

SENTINEL_REASON == "No obvious automated red flags detected"

\* rules.get(key, default)
Get(rules, key, default) == IF key \in DOMAIN rules THEN rules[key] ELSE default

\* the phrases of a list that occur in the text, in the list's order
FoundIn(phrases, text) == SelectSeq(phrases, LAMBDA p : In(Lower(p), text))

\* ', '.join(found[:n])
JoinFirst(found, n) == Join(SubSeq(found, 1, Min2(n, Len(found))), ", ")

(***************************************************************************)
(* tldextract.extract and urllib.parse.urlparse (library code the          *)
(* analyzers call), on the hosts and links the model uses                  *)
(***************************************************************************)
\* the entries of the public suffix list that the modelled hosts end in
PublicSuffixes == {"com", "org", "net", "io", "uk", "co.uk", "gov", "ng", "gov.ng",
                   "xyz", "ru", "ly", "co", "at", "top"}

\* re.fullmatch(r"\d{1,3}(?:\.\d{1,3}){3}", host)
IsIPv4(host) ==
    LET Dotted(parts) == /\ Len(parts) = 4
                         /\ \A i \in 1..4 : /\ Len(parts[i]) \in 1..3
                                            /\ Chars(parts[i]) \subseteq DigitChars
    IN  Dotted(Split(host, "."))

\* the host of a netloc: userinfo and port removed
NetlocHost(netloc) ==
    LET Last(parts) == parts[Len(parts)]
    IN  Split(Last(Split(netloc, "@")), ":")[1]

\* tldextract.extract(name): subdomain, domain and suffix by the longest
\* public suffix; an IPv4 literal or a name without a known suffix has an
\* empty suffix
tld_extract(name) ==
    LET SuffixAt(labels, k) == Join(SubSeq(labels, k, Len(labels)), ".")
        First(starts) == CHOOSE m \in starts : \A o \in starts : m <= o
        Cut(labels, k) == [subdomain |-> Join(SubSeq(labels, 1, k - 2), "."),
                           domain |-> IF k >= 2 THEN labels[k - 1] ELSE "",
                           suffix |-> SuffixAt(labels, k)]
        Parts(host, labels, starts) ==
            IF host = "" THEN [subdomain |-> "", domain |-> "", suffix |-> ""]
            ELSE IF IsIPv4(host) THEN [subdomain |-> "", domain |-> host, suffix |-> ""]
            ELSE IF starts = {}
                 THEN [subdomain |-> Join(SubSeq(labels, 1, Len(labels) - 1), "."),
                       domain |-> labels[Len(labels)], suffix |-> ""]
            ELSE Cut(labels, First(starts))
        OfLabels(host, labels) ==
            Parts(host, labels,
                  {k \in 1..Len(labels) : SuffixAt(labels, k) \in PublicSuffixes})
    IN  OfLabels(NetlocHost(name), Split(NetlocHost(name), "."))

\* urlparse(url).netloc: what follows "://" up to the first of / ? #
UrlNetloc(url) ==
    LET First(cuts) == CHOOSE j \in cuts : \A o \in cuts : j <= o
        Cut(rest, cuts) == IF cuts = {} THEN rest ELSE SubSeq(rest, 1, First(cuts) - 1)
        OfRest(rest) == Cut(rest, {j \in 1..Len(rest) : Char(rest, j) \in {"/", "?", "#"}})
        After(i) == IF i = 0 THEN "" ELSE SubSeq(url, i + 3, Len(url))
    IN  OfRest(After(Find("://", url)))

\* the characters the link pattern excludes besides whitespace (the backquote,
\* which no modelled text holds, cannot be written in a string here)
LinkStopChars == {"<", ">", "\"", "{", "}", "|", "\\", "^", "[", "]"}

IsLinkChar(c) == ~IsSpace(c) /\ c \notin LinkStopChars

\* the last index of the run of link characters that starts at index j
\* (j - 1 when there is none)
LinkEnd(text, j) ==
    LET Before(stops) == IF stops = {} THEN Len(text)
                         ELSE (CHOOSE k \in stops : \A o \in stops : k <= o) - 1
    IN  Before({k \in j..Len(text) : ~IsLinkChar(Char(text, k))})

\* the length of "http://" or "https://" (any case) at index i, else 0
SchemeAt(text, i) ==
    LET Of(low) == IF StartsWith(low, "http://") THEN 7
                   ELSE IF StartsWith(low, "https://") THEN 8
                   ELSE 0
    IN  Of(Lower(SubSeq(text, i, Min2(i + 7, Len(text)))))

RECURSIVE LinksFrom(_, _)
\* the matches of the link pattern at or after index i: the leftmost match,
\* then the matches after its end
LinksFrom(text, i) ==
    LET IsStart(k, n) == n > 0 /\ LinkEnd(text, k + n) >= k + n
        Cut(k, e) == <<SubSeq(text, k, e)>> \o LinksFrom(text, e + 1)
        CutAt(k, n) == Cut(k, LinkEnd(text, k + n))
        First(starts) == CHOOSE m \in starts : \A o \in starts : m <= o
        CutFirst(k) == CutAt(k, SchemeAt(text, k))
        From(starts) == IF starts = {} THEN <<>> ELSE CutFirst(First(starts))
    IN  From({k \in i..Len(text) : /\ Lower(Char(text, k)) = "h"
                                   /\ IsStart(k, SchemeAt(text, k))})

\* re.findall(url_pattern, text, re.IGNORECASE): the non-overlapping links,
\* left to right
extract_links(text) == LinksFrom(text, 1)

(***************************************************************************)
(* backend/core_engine/email_checker.py                                    *)
(***************************************************************************)
\* load_email_rules(): the built-in rules returned when rules/email_rules.json
\* does not exist
DefaultEmailRules ==
    [dangerous_attachments |-> <<".exe", ".zip", ".rar", ".7z", ".bat", ".scr", ".js",
                                 ".vbs", ".jar", ".pdf">>,
     urgent_phrases |-> <<"urgent", "immediately", "your account will be closed",
                          "last warning", "suspended", "final notice", "verify now",
                          "action required", "unauthorized access", "security alert">>,
     info_request_phrases |-> <<"password", "credit card", "debit card", "security code",
                                "otp", "2fa", "pin", "verify your identity",
                                "confirm your details">>,
     suspicious_sender_domains |-> <<"outlook.com", "gmail.com", "yahoo.com", "hotmail.com">>,
     link_mismatch_detection |-> TRUE]

EMAIL_WEIGHTS ==
    [suspicious_sender_domain |-> 20, sender_domain_mismatch |-> 25, urgent_language |-> 20,
     info_request |-> 25, dangerous_attachment |-> 20, suspicious_link |-> 15,
     link_domain_mismatch |-> 20, too_good_to_be_true |-> 25, suspicious_subject |-> 10,
     spelling_errors |-> 25, generic_greeting |-> 5, typosquatting |-> 55]

TRUSTED_BRANDS == <<"google", "support", "noreply", "github", "opay", "the5ers">>

\* the typosquatting weight of the WEIGHTS table, which analyze_email does
\* not read
TyposquatWeightFromTable == EMAIL_WEIGHTS.typosquatting

\* the weight added when the sender's domain is a typo of a trusted brand
TYPOSQUAT_SCORE == 75

\* the local-part weight taken to be the typosquatting one
LocalBrandScoredAsTyposquat == TYPOSQUAT_SCORE

\* the weight added when a trusted brand stands in the local-part
LOCAL_BRAND_SCORE == 55

extract_domain_from_email(email) ==
    LET Last(parts) == parts[Len(parts)]
    IN  IF email = "" \/ ~In("@", email) THEN ""
        ELSE Strip(Lower(Last(Split(email, "@"))))

\* the heuristic with a run of two, not three, of i l 1 |
HasSpellingErrorsPair(text) ==
    \/ \E i \in 1..Len(text) : Char(text, i) \in DigitChars
    \/ \E i \in 1..(Len(text) - 1) :
          \A j \in i..(i + 1) : Lower(Char(text, j)) \in {"i", "l", "1", "|"}

\* count_spelling_errors(text) > 0: a digit, or three characters of i l 1 |
\* (any case) in a row
has_spelling_errors(text) ==
    \/ \E i \in 1..Len(text) : Char(text, i) \in DigitChars
    \/ \E i \in 1..(Len(text) - 2) :
          \A j \in i..(i + 2) : Lower(Char(text, j)) \in {"i", "l", "1", "|"}

is_generic_greeting(text) ==
    LET generic_greetings == <<"dear user", "dear customer", "dear sir/madam", "hello",
                               "hi there">>
        Greets(head100) == \E i \in 1..Len(generic_greetings) :
                               In(generic_greetings[i], head100)
    IN  Greets(SubSeq(Lower(text), 1, Min2(100, Len(text))))

RECURSIVE LevCurrentRowSubstituting(_, _, _, _)
\* the inner loop with a substitution counted also for two equal characters
LevCurrentRowSubstituting(previous_row, current_row, c1, s2) ==
    IF Len(current_row) = Len(s2) + 1 THEN current_row
    ELSE LET j == Len(current_row) - 1
             insertions == previous_row[j + 2] + 1
             deletions == current_row[j + 1] + 1
             substitutions == previous_row[j + 1] + 1
         IN  LevCurrentRowSubstituting(previous_row,
                           Append(current_row, Min2(insertions, Min2(deletions, substitutions))),
                           c1, s2)

RECURSIVE LevCurrentRow(_, _, _, _)
\* the inner loop of levenshtein_distance: j is enumerate's index over s2, the
\* number of entries current_row holds after its first; the loop ends when
\* the row has an entry for every character of s2
LevCurrentRow(previous_row, current_row, c1, s2) ==
    IF Len(current_row) = Len(s2) + 1 THEN current_row
    ELSE LET j == Len(current_row) - 1
             insertions == previous_row[j + 2] + 1
             deletions == current_row[j + 1] + 1
             substitutions == previous_row[j + 1] + (IF c1 # Char(s2, j + 1) THEN 1 ELSE 0)
         IN  LevCurrentRow(previous_row,
                           Append(current_row, Min2(insertions, Min2(deletions, substitutions))),
                           c1, s2)

RECURSIVE LevRows(_, _, _, _)
\* the outer loop of levenshtein_distance: i is enumerate's index over s1; a
\* row is computed in full before the next iteration reads it
LevRows(previous_row, s1, s2, i) ==
    IF i = Len(s1) THEN previous_row
    ELSE LET current_row == LevCurrentRow(previous_row, <<i + 1>>, Char(s1, i + 1), s2)
         IN  IF Len(current_row) = Len(s2) + 1 THEN LevRows(current_row, s1, s2, i + 1)
             ELSE current_row

levenshtein_distance(a, b) ==
    LET s1 == IF Len(a) < Len(b) THEN b ELSE a
        s2 == IF Len(a) < Len(b) THEN a ELSE b
    IN  IF Len(s2) = 0 THEN Len(s1)
        ELSE LevRows([j \in 1..(Len(s2) + 1) |-> j - 1], s1, s2, 0)[Len(s2) + 1]

\* the distance test of the typosquatting loop (the same for every brand)
is_typo(dist) == dist > 0 /\ dist <= 2

\* 0) the typosquatting loop: the first brand, in list order, that the
\* second-level label differs from and is a typo of
EmailTyposquatCheck(sender_domain) ==
    LET First(hits) == CHOOSE i \in hits : \A o \in hits : i <= o
        Scored(hits) ==
            IF sender_domain # "" /\ hits # {}
            THEN Check(Pts(TYPOSQUAT_SCORE),
                       <<Reason(182, "Typosquatting detected: mimics trusted brand",
                                <<sender_domain, TRUSTED_BRANDS[First(hits)]>>)>>,
                       "typosquatting" :> TRUE)
            ELSE Skip
        Hits(sld) == {i \in 1..Len(TRUSTED_BRANDS) :
                         /\ sld # TRUSTED_BRANDS[i]
                         /\ is_typo(levenshtein_distance(sld, TRUSTED_BRANDS[i]))}
    IN  Scored(Hits(Lower(tld_extract(sender_domain).domain)))

\* the local-part loop without the comparison of the brand with the sender's
\* own label
EmailLocalPartCheckAnyDomain(sender, sender_domain) ==
    LET First(hits) == CHOOSE i \in hits : \A o \in hits : i <= o
        Scored(local_part, hits) ==
            IF local_part # "" /\ hits # {}
            THEN Check(Pts(LOCAL_BRAND_SCORE),
                       <<Reason(208, "Trusted brand found in local-part of email",
                                <<TRUSTED_BRANDS[First(hits)]>>)>>,
                       "brand_impersonation_local" :> TRUE)
            ELSE Skip
        Of(local_part) ==
            Scored(local_part, {i \in 1..Len(TRUSTED_BRANDS) :
                                   /\ TRUSTED_BRANDS[i] \notin {"support", "noreply"}
                                   /\ In(TRUSTED_BRANDS[i], local_part)})
    IN  Of(IF In("@", sender) THEN Lower(Split(sender, "@")[1]) ELSE "")

\* 0.5) the local-part loop: the first brand, other than the generic
\* prefixes, that is in the local-part and is not the sender's label
EmailLocalPartCheck(sender, sender_domain) ==
    LET First(hits) == CHOOSE i \in hits : \A o \in hits : i <= o
        Scored(local_part, hits) ==
            IF local_part # "" /\ hits # {}
            THEN Check(Pts(LOCAL_BRAND_SCORE),
                       <<Reason(208, "Trusted brand found in local-part of email",
                                <<TRUSTED_BRANDS[First(hits)]>>)>>,
                       "brand_impersonation_local" :> TRUE)
            ELSE Skip
        Of(local_part, sender_sld) ==
            Scored(local_part, {i \in 1..Len(TRUSTED_BRANDS) :
                                   /\ TRUSTED_BRANDS[i] \notin {"support", "noreply"}
                                   /\ In(TRUSTED_BRANDS[i], local_part)
                                   /\ sender_sld # TRUSTED_BRANDS[i]})
    IN  Of(IF In("@", sender) THEN Lower(Split(sender, "@")[1]) ELSE "",
           IF sender_domain # "" THEN Lower(tld_extract(sender_domain).domain) ELSE "")

EmailSenderDomainCheck(sender_domain, rules) ==
    LET Flagged(flag) ==
            Check(IF flag THEN Pts(EMAIL_WEIGHTS.suspicious_sender_domain) ELSE 0,
                  IF flag THEN <<Reason(216, "Sender domain is commonly used in phishing",
                                        <<sender_domain>>)>>
                  ELSE <<>>,
                  "suspicious_sender_domain" :> flag)
    IN  Flagged(sender_domain \in Range(Get(rules, "suspicious_sender_domains", <<>>)))

\* f"{extracted.domain}.{extracted.suffix}".lower()
RootOf(name) ==
    LET Rooted(extracted) == Lower(extracted.domain \o "." \o extracted.suffix)
    IN  Rooted(tld_extract(name))

\* whether the link's root domain differs from the sender's
LinkMismatches(link, sender_domain) ==
    LET Differ(link_domain, link_root, sender_root) ==
            /\ Replace(link_domain, "www.", "") # ""
            /\ Replace(sender_domain, "www.", "") # ""
            /\ link_root # sender_root
            /\ link_root # ""
    IN  Differ(Lower(UrlNetloc(link)), RootOf(Lower(UrlNetloc(link))), RootOf(sender_domain))

\* 2) links: one weight for any link, one for the first mismatching link
EmailLinksCheck(links_found, sender_domain, rules) ==
    LET has == links_found # <<>>
        Scored(mismatch, link_root, sender_root) ==
            Check((IF has THEN Pts(EMAIL_WEIGHTS.suspicious_link) ELSE 0)
                    + (IF mismatch THEN Pts(EMAIL_WEIGHTS.link_domain_mismatch) ELSE 0),
                  (IF has THEN <<Reason(224, "Found link(s) in email",
                                        <<ToString(Len(links_found))>>)>> ELSE <<>>)
                    \o (IF mismatch
                        THEN <<Reason(247, "Link domain doesn't match sender domain",
                                      <<link_root, sender_root>>)>>
                        ELSE <<>>),
                  IF mismatch THEN ("link_domain_mismatch" :> TRUE) @@ ("has_links" :> has)
                  ELSE "has_links" :> has)
        Of(bad) == Scored(/\ has
                          /\ sender_domain # ""
                          /\ Get(rules, "link_mismatch_detection", TRUE)
                          /\ bad # <<>>,
                          RootOf(Lower(UrlNetloc(bad[1]))), RootOf(sender_domain))
    IN  Of(SelectSeq(links_found, LAMBDA l : LinkMismatches(l, sender_domain)))

\* 3), 4), 6): a phrase list checked against the lower-cased text
EmailPhraseCheck(key, line, text, phrases, full_text) ==
    LET Scored(found) ==
            Check(IF found # <<>> THEN Pts(EMAIL_WEIGHTS[key]) ELSE 0,
                  IF found # <<>> THEN <<Reason(line, text, <<JoinFirst(found, 3)>>)>>
                  ELSE <<>>,
                  key :> (found # <<>>))
    IN  Scored(FoundIn(phrases, full_text))

\* 5) dangerous attachments, and mentions of their extensions at half weight
EmailAttachmentCheck(attachments_found, full_text, rules) ==
    LET Scored(exts, dangerous) ==
            IF dangerous # <<>>
            THEN Check(Pts(EMAIL_WEIGHTS.dangerous_attachment),
                       <<Reason(288, "Dangerous attachment(s) detected",
                                <<Join(dangerous, ", ")>>)>>,
                       "dangerous_attachment" :> TRUE)
            ELSE IF \E i \in 1..Len(exts) : In(Lower(exts[i]), full_text)
            THEN Check(Pts(EMAIL_WEIGHTS.dangerous_attachment) \div 2,
                       <<Reason(294, "Email mentions dangerous file types", <<>>)>>,
                       "dangerous_attachment" :> FALSE)
            ELSE Check(0, <<>>, "dangerous_attachment" :> FALSE)
        Of(exts) ==
            Scored(exts, SelectSeq(attachments_found,
                                   LAMBDA att : \E i \in 1..Len(exts) :
                                                    EndsWith(Lower(att), Lower(exts[i]))))
    IN  Of(Get(rules, "dangerous_attachments", <<>>))

\* 7) suspicious subject line
EmailSubjectCheck(subject) ==
    LET suspicious_subject_indicators == <<"urgent", "action required", "verify",
                                           "suspended", "locked">>
    IN  IF subject # "" /\ FoundIn(suspicious_subject_indicators, Lower(subject)) # <<>>
        THEN Check(Pts(EMAIL_WEIGHTS.suspicious_subject),
                   <<Reason(311, "Suspicious subject line detected", <<>>)>>,
                   "suspicious_subject" :> TRUE)
        ELSE Skip

\* 8) spelling errors in the sender
EmailSpellingCheck(sender) ==
    IF sender = "" THEN Skip
    ELSE IF has_spelling_errors(sender)
    THEN Check(Pts(EMAIL_WEIGHTS.spelling_errors),
               <<Reason(319, "Potential spelling errors or typosquatting in sender address",
                        <<>>)>>,
               "spelling_errors" :> TRUE)
    ELSE Check(0, <<>>, "spelling_errors" :> FALSE)

\* 9) generic greeting
EmailGreetingCheck(content) ==
    IF is_generic_greeting(content)
    THEN Check(Pts(EMAIL_WEIGHTS.generic_greeting),
               <<Reason(325, "Uses generic greeting instead of personal name", <<>>)>>,
               "generic_greeting" :> TRUE)
    ELSE Skip

\* int(min(max(max(0, score), 0), 100)) of a score held in 1/SCALE points
EmailMapped(score) == Min2(Max2(Max2(0, score), 0), Pts(100)) \div SCALE

EmailVerdict(mapped) ==
    IF mapped >= 65 THEN "phishing"
    ELSE IF mapped >= 30 THEN "suspicious"
    ELSE "safe"

\* reasons or [sentinel]
EmailReasons(reasons) ==
    IF reasons = <<>> THEN <<Reason(345, SENTINEL_REASON, <<>>)>> ELSE reasons

\* the checks of analyze_email in the order the code runs them
EmailChecks(sender, sender_domain, subject, content, full_text, attachments_found, rules) ==
    << EmailTyposquatCheck(sender_domain),
       EmailLocalPartCheck(sender, sender_domain),
       EmailSenderDomainCheck(sender_domain, rules),
       EmailLinksCheck(extract_links(full_text), sender_domain, rules),
       EmailPhraseCheck("urgent_language", 262, "Urgent/fear-based language detected",
                        Get(rules, "urgent_phrases", <<>>), full_text),
       EmailPhraseCheck("info_request", 274, "Requests sensitive information",
                        Get(rules, "info_request_phrases", <<>>), full_text),
       EmailAttachmentCheck(attachments_found, full_text, rules),
       EmailPhraseCheck("too_good_to_be_true", 302, "Suspicious promotional language",
                        <<"won", "reward", "free", "congratulations", "gift", "prize",
                          "bonus", "lottery">>, full_text),
       EmailSubjectCheck(subject),
       EmailSpellingCheck(sender),
       EmailGreetingCheck(content) >>

\* analyze_email(sender, subject, content, attachments): None is modelled by
\* the empty string and the empty list it is replaced by
analyze_email(sender0, subject0, content0, attachments, rules) ==
    LET Returned(sender, subject, full_text, run) ==
            [result |-> [status |-> "returned",
                         sender |-> sender,
                         subject |-> subject,
                         score |-> EmailMapped(run.score),
                         verdict |-> EmailVerdict(EmailMapped(run.score)),
                         reasons |-> EmailReasons(run.reasons),
                         indicators |-> run.indicators,
                         links_found |-> extract_links(full_text),
                         attachments_found |-> attachments],
             locals |-> [score |-> run.score, reasons |-> run.reasons]]
        Scored(sender, subject, content, full_text) ==
            Returned(sender, subject, full_text,
                     RunChecks(EmailChecks(sender, extract_domain_from_email(sender), subject,
                                           content, full_text, attachments, rules)))
        Of(sender, subject, content) ==
            Scored(sender, subject, content, Lower(subject \o " " \o content))
    IN  Of(Strip(sender0), Strip(subject0), Strip(content0))

(***************************************************************************)
(* backend/core_engine/url_checker.py                                      *)
(***************************************************************************)
\* load_url_rules(): the built-in rules returned when rules/url_rules.json
\* does not exist
DefaultUrlRules ==
    [suspicious_tlds |-> <<".xyz", ".top", ".gq", ".tk", ".ml", ".ga", ".icu", ".buzz",
                           ".rest", ".monster", ".zip", ".click", ".work", ".cn", ".ru">>,
     trusted_domains |-> <<"google.com", "paypal.com", "facebook.com", "youtube.com",
                           "amazon.com", "netflix.com", "microsoft.com", "apple.com",
                           "github.com", "linkedin.com">>,
     phishing_keywords |-> <<"login", "verify", "secure", "update", "unlock", "banking",
                             "password", "confirm", "recovery", "account-security",
                             "free-gift", "bonus", "promo", "alert", "suspend", "urgent",
                             "auth", "2fa">>,
     detect_ip_urls |-> TRUE]

\* get_weights(rules): the built-in weights, since the built-in rules hold no
\* "weights" key
UrlDefaultWeights ==
    [ip_in_host |-> 25, suspicious_tld |-> 18, long_url |-> 6, many_subdomains |-> 8,
     hyphen_in_domain |-> 6, punycode |-> 20, suspicious_chars |-> 6,
     suspicious_path_tokens |-> 6, url_length_entropy |-> 5, known_whitelist |-> -40,
     suspicious_domain_token_long |-> 6]

\* the weights applied as literals, not read from the table
TRUSTED_TLD_SCORE == -20

TRUST_OVERRIDE_SCORE == -40

MIMICRY_SCORE == 65

DOMAIN_PATTERN_SCORE == 30

\* a Python value passed as url: a str, or a value of another type
StrValue(s) == [type |-> "str", s |-> s]

NonStrValues == {[type |-> "NoneType"], [type |-> "int", n |-> 0], [type |-> "int", n |-> 7],
                 [type |-> "list", items |-> <<>>],
                 [type |-> "list", items |-> <<"http://a.com">>]}

\* the guard without "not url"
IsNonStringUrl(url) == url.type # "str"

\* not url or not isinstance(url, str)
IsInvalidUrl(url) ==
    \/ url.type # "str"
    \/ url.s = ""

\* the percent escapes urllib.parse.unquote decodes in the modelled paths
PercentCodes == [code \in {"%2D", "%2d", "%6C", "%6c", "%20", "%2F", "%2f"} |->
                    CASE code \in {"%2D", "%2d"} -> "-"
                      [] code \in {"%6C", "%6c"} -> "l"
                      [] code = "%20" -> " "
                      [] OTHER -> "/"]

RECURSIVE Unquote(_)
\* unquote(s): every known %XX replaced by its character
Unquote(s) ==
    LET Decode(at) ==
            IF at = {} THEN s
            ELSE LET i == CHOOSE m \in at : \A o \in at : m <= o
                 IN  SubSeq(s, 1, i - 1) \o PercentCodes[SubSeq(s, i, i + 2)]
                        \o Unquote(SubSeq(s, i + 3, Len(s)))
    IN  Decode({i \in 1..(Len(s) - 2) : SubSeq(s, i, i + 2) \in DOMAIN PercentCodes})

\* the first index of a character of S in s, Len(s) + 1 when there is none
FirstOf(S, s) ==
    LET at == {i \in 1..Len(s) : Char(s, i) \in S}
    IN  IF at = {} THEN Len(s) + 1 ELSE CHOOSE i \in at : \A o \in at : i <= o

SchemeChars == AlphaChars \cup DigitChars \cup {"+", "-", "."}

\* urllib.parse.urlsplit(url): scheme, netloc, path and query; raises
\* ValueError when the netloc holds one of [ ] without the other
urlparse(url) ==
    LET Parts(hasScheme, colon, netloc, noFragment, q) ==
            [raised |-> In("[", netloc) # In("]", netloc),
             scheme |-> IF hasScheme THEN Lower(SubSeq(url, 1, colon - 1)) ELSE "",
             netloc |-> netloc,
             path |-> SubSeq(noFragment, 1, q - 1),
             query |-> IF q <= Len(noFragment)
                       THEN SubSeq(noFragment, q + 1, Len(noFragment))
                       ELSE ""]
        OfTail(hasScheme, colon, netloc, tail) ==
            LET noFragment == SubSeq(tail, 1, FirstOf({"#"}, tail) - 1)
            IN  Parts(hasScheme, colon, netloc, noFragment, FirstOf({"?"}, noFragment))
        OfNetloc(hasScheme, colon, rest, hasNetloc, afterSlashes, netlocEnd) ==
            OfTail(hasScheme, colon,
                   IF hasNetloc THEN SubSeq(afterSlashes, 1, netlocEnd - 1) ELSE "",
                   IF hasNetloc THEN SubSeq(afterSlashes, netlocEnd, Len(afterSlashes))
                   ELSE rest)
        OfRest(hasScheme, colon, rest, hasNetloc) ==
            LET afterSlashes == IF hasNetloc THEN SubSeq(rest, 3, Len(rest)) ELSE rest
            IN  OfNetloc(hasScheme, colon, rest, hasNetloc, afterSlashes,
                         FirstOf({"/", "?", "#"}, afterSlashes))
        OfScheme(hasScheme, colon) ==
            LET rest == IF hasScheme THEN SubSeq(url, colon + 1, Len(url)) ELSE url
            IN  OfRest(hasScheme, colon, rest, StartsWith(rest, "//"))
        OfColon(colon) ==
            OfScheme(/\ colon > 1
                     /\ IsAlpha(Char(url, 1))
                     /\ Chars(SubSeq(url, 1, colon - 1)) \subseteq SchemeChars,
                     colon)
    IN  OfColon(Find(":", url))

\* SplitResult._hostinfo: the host and the port text of a netloc
HostInfo(netloc) ==
    LET Last(parts) == parts[Len(parts)]
        Info(hostinfo, open, colon, bracketed, close) ==
            LET afterClose == SubSeq(bracketed, Min2(close + 1, Len(bracketed) + 1),
                                     Len(bracketed))
            IN  IF open > 0
                THEN [hostname |-> SubSeq(bracketed, 1, close - 1),
                      port |-> IF In(":", afterClose)
                               THEN SubSeq(afterClose, Find(":", afterClose) + 1,
                                           Len(afterClose))
                               ELSE ""]
                ELSE [hostname |-> SubSeq(hostinfo, 1, colon - 1),
                      port |-> SubSeq(hostinfo, Min2(colon + 1, Len(hostinfo) + 1),
                                      Len(hostinfo))]
        OfOpen(hostinfo, open) ==
            LET bracketed == SubSeq(hostinfo, open + 1, Len(hostinfo))
            IN  Info(hostinfo, open, FirstOf({":"}, hostinfo), bracketed,
                     FirstOf({"]"}, bracketed))
        OfHostinfo(hostinfo) == OfOpen(hostinfo, Find("[", hostinfo))
    IN  OfHostinfo(Last(Split(netloc, "@")))

\* parsed.hostname or ""
UrlHostname(netloc) == Lower(HostInfo(netloc).hostname)

RECURSIVE DecimalValue(_)
\* int(port) of a digit string
DecimalValue(digits) ==
    IF digits = "" THEN 0
    ELSE 10 * DecimalValue(SubSeq(digits, 1, Len(digits) - 1))
            + (CHOOSE d \in 0..9 : Char("0123456789", d + 1) = Char(digits, Len(digits)))

\* parsed.port raises ValueError for a port that is not a number in 0..65535
PortRaises(netloc) ==
    LET Bad(port) == /\ port # ""
                     /\ \/ ~(Chars(port) \subseteq DigitChars)
                        \/ DecimalValue(port) > 65535
    IN  Bad(HostInfo(netloc).port)

\* parsed.port, None modelled as -1
UrlPort(netloc) ==
    LET Number(port) == IF port = "" THEN -1 ELSE DecimalValue(port)
    IN  Number(HostInfo(netloc).port)

is_ip(host) ==
    \/ IsIPv4(host)
    \/ StartsWith(host, "[") /\ EndsWith(host, "]")

contains_punycode(host) == In("xn--", Lower(host))

\* round(1000 * log2(n)) for n = 1..160
Log2Milli ==
   <<0, 1000, 1585, 2000, 2322, 2585, 2807, 3000, 3170, 3322, 3459, 3585,
      3700, 3807, 3907, 4000, 4087, 4170, 4248, 4322, 4392, 4459, 4524, 4585,
      4644, 4700, 4755, 4807, 4858, 4907, 4954, 5000, 5044, 5087, 5129, 5170,
      5209, 5248, 5285, 5322, 5358, 5392, 5426, 5459, 5492, 5524, 5555, 5585,
      5615, 5644, 5672, 5700, 5728, 5755, 5781, 5807, 5833, 5858, 5883, 5907,
      5931, 5954, 5977, 6000, 6022, 6044, 6066, 6087, 6109, 6129, 6150, 6170,
      6190, 6209, 6229, 6248, 6267, 6285, 6304, 6322, 6340, 6358, 6375, 6392,
      6409, 6426, 6443, 6459, 6476, 6492, 6508, 6524, 6539, 6555, 6570, 6585,
      6600, 6615, 6629, 6644, 6658, 6672, 6687, 6700, 6714, 6728, 6741, 6755,
      6768, 6781, 6794, 6807, 6820, 6833, 6845, 6858, 6870, 6883, 6895, 6907,
      6919, 6931, 6943, 6954, 6966, 6977, 6989, 7000, 7011, 7022, 7033, 7044,
      7055, 7066, 7077, 7087, 7098, 7109, 7119, 7129, 7140, 7150, 7160, 7170,
      7180, 7190, 7200, 7209, 7219, 7229, 7238, 7248, 7257, 7267, 7276, 7285,
      7295, 7304, 7313, 7322>>

RECURSIVE SumOver(_, _, _)
\* the sum of term[i] for i in lo..hi, by halves
SumOver(term, lo, hi) ==
    IF lo > hi THEN 0
    ELSE IF lo = hi THEN term[lo]
    ELSE SumOver(term, lo, (lo + hi) \div 2) + SumOver(term, (lo + hi) \div 2 + 1, hi)

\* entropy_score(s) in thousandths: the Shannon entropy of the character
\* distribution, log2(n) - sum(c * log2(c)) / n over the character counts c,
\* divided by 6 and capped at 1; logarithms are taken from Log2Milli
entropy_score(s) ==
    LET n == Len(s)
        first(i) == \A j \in 1..(i - 1) : Char(s, j) # Char(s, i)
        Entropy(term) ==
            IF s = "" THEN 0
            ELSE Min2((n * Log2Milli[n] - SumOver(term, 1, n)) \div (6 * n), 1000)
        OfCounts(count) ==
            Entropy([i \in 1..n |-> IF first(i) THEN count[i] * Log2Milli[count[i]] ELSE 0])
    IN  OfCounts([i \in 1..n |-> Cardinality({j \in 1..n : Char(s, j) = Char(s, i)})])

ENTROPY_THRESHOLD == 900

LONG_URL_LENGTH == 100

\* the length of the longest common run of a from index i and b from index j
\* that stays within a[..ahi] and b[..bhi]
CommonRun(a, i, ahi, b, j, bhi) ==
    LET m == Min2(ahi - i + 1, bhi - j + 1)
        diff == {k \in 1..m : Char(a, i + k - 1) # Char(b, j + k - 1)}
    IN  IF diff = {} THEN m ELSE (CHOOSE k \in diff : \A o \in diff : k <= o) - 1

\* SequenceMatcher.find_longest_match(alo, ahi, blo, bhi), without junk: the
\* longest matching block, the one that starts earliest in a and then
\* earliest in b among the longest; <<i, j, size>>
find_longest_match(a, alo, ahi, b, blo, bhi) ==
    LET Better(p, q) == \/ p[3] > q[3]
                        \/ p[3] = q[3] /\ p[1] < q[1]
                        \/ p[3] = q[3] /\ p[1] = q[1] /\ p[2] <= q[2]
        Best(blocks) == IF blocks = {} THEN <<alo, blo, 0>>
                        ELSE CHOOSE p \in blocks : \A q \in blocks : Better(p, q)
    IN  Best({<<p[1], p[2], CommonRun(a, p[1], ahi, b, p[2], bhi)>> :
                 p \in {r \in (alo..ahi) \X (blo..bhi) : Char(a, r[1]) = Char(b, r[2])}})

RECURSIVE MatchedChars(_, _, _, _, _, _)
\* the total size of SequenceMatcher.get_matching_blocks(): the longest block,
\* then the blocks to its left and to its right
MatchedChars(a, alo, ahi, b, blo, bhi) ==
    LET Around(best) ==
            IF best[3] = 0 THEN 0
            ELSE best[3]
                   + MatchedChars(a, alo, best[1] - 1, b, blo, best[2] - 1)
                   + MatchedChars(a, best[1] + best[3], ahi, b, best[2] + best[3], bhi)
    IN  IF alo > ahi \/ blo > bhi THEN 0
        ELSE Around(find_longest_match(a, alo, ahi, b, blo, bhi))

\* SequenceMatcher(None, a, b).ratio() >= threshold, the threshold in
\* hundredths: ratio is 2.0 * matches / (len(a) + len(b)), 1.0 for two
\* empty strings
RatioAtLeast(a, b, hundredths) ==
    IF Len(a) + Len(b) = 0 THEN TRUE
    ELSE 200 * MatchedChars(a, 1, Len(a), b, 1, Len(b)) >= hundredths * (Len(a) + Len(b))

SIMILARITY_THRESHOLD == 80

\* one iteration of the loop of is_similar_to_whitelisted: what it returns
\* for this whitelisted domain, or "continue"
WhitelistProbe(domain, whitelisted) ==
    IF domain = whitelisted THEN "exact"
    ELSE IF RatioAtLeast(domain, whitelisted, SIMILARITY_THRESHOLD) THEN "misspelling"
    ELSE IF /\ Len(domain) - Len(whitelisted) \in {-1, 1}
            /\ (In(whitelisted, domain) \/ In(domain, whitelisted)) THEN "misspelling"
    ELSE IF /\ Len(domain) > 5
            /\ Len(whitelisted) > 5
            /\ \/ SubSeq(domain, 2, Len(domain)) = SubSeq(whitelisted, 2, Len(whitelisted))
               \/ SubSeq(domain, 1, Len(domain) - 1)
                    = SubSeq(whitelisted, 1, Len(whitelisted) - 1) THEN "misspelling"
    ELSE "continue"

\* the loop returning False, None where it found a likely misspelling
IsSimilarDroppingMatch(domain0, whitelist) ==
    LET OfDomain(domain) ==
            IF domain \in whitelist
            THEN {[is_whitelisted |-> TRUE, matched |-> domain]}
            ELSE {[is_whitelisted |-> FALSE, matched |-> ""]}
    IN  OfDomain(Lower(domain0))

\* is_similar_to_whitelisted(domain): the pairs (is_whitelisted,
\* matched_whitelist) the loop can return. ROOT_DOMAIN_WHITELIST is a set, so
\* its iteration order is not fixed: the loop returns at the first domain,
\* in that order, that it does not skip, and any such domain can come first.
\* matched |-> "" stands for None.
is_similar_to_whitelisted(domain0, whitelist) ==
    LET Returned(probe, deciding) ==
            IF deciding = {} THEN {[is_whitelisted |-> FALSE, matched |-> ""]}
            ELSE {[is_whitelisted |-> probe[w] = "exact", matched |-> w] : w \in deciding}
        Decided(probe) == Returned(probe, {w \in whitelist : probe[w] # "continue"})
        OfDomain(domain) == Decided([w \in whitelist |-> WhitelistProbe(domain, w)])
    IN  OfDomain(Lower(domain0))

\* get_weights(rules)
url_get_weights(rules) == Get(rules, "weights", UrlDefaultWeights)

\* the maximal runs of characters of S in s: re.findall(r"[S]+", s) as a set
RunsOf(S, s) ==
    LET starts == {i \in 1..Len(s) :
                      Char(s, i) \in S /\ (i = 1 \/ Char(s, i - 1) \notin S)}
        stop(i) == LET out == {k \in i..Len(s) : Char(s, k) \notin S}
                   IN  IF out = {} THEN Len(s)
                       ELSE (CHOOSE k \in out : \A o \in out : k <= o) - 1
    IN  {SubSeq(s, i, stop(i)) : i \in starts}

PathTokenChars == AlphaChars \cup DigitChars \cup {"_", "-"}

\* the characters of the class [@\^\[\]\{\}\<\>\\\|]
SuspiciousUrlChars == {"@", "^", "[", "]", "{", "}", "<", ">", "\\", "|"}

RECURSIVE Perms(_)
\* the orders in which list(a_set) can hold the elements of a set
Perms(S) ==
    IF S = {} THEN {<<>>}
    ELSE UNION {{<<x>> \o rest : rest \in Perms(S \ {x})} : x \in S}

\* the order of str: character by character, a proper prefix first (the
\* characters of a path token ordered as their code points are)
StrLess(a, b) ==
    LET rank(c) == Find(c, "-0123456789_" \o LowerLetters)
    IN  \E i \in 1..(Min2(Len(a), Len(b)) + 1) :
           /\ SubSeq(a, 1, i - 1) = SubSeq(b, 1, i - 1)
           /\ IF i > Len(a) THEN i <= Len(b)
              ELSE i <= Len(b) /\ rank(Char(a, i)) < rank(Char(b, i))

RECURSIVE Sorted(_)
\* sorted(a_set)
Sorted(S) ==
    LET From(least) == <<least>> \o Sorted(S \ {least})
    IN  IF S = {} THEN <<>>
        ELSE From(CHOOSE x \in S : \A y \in S \ {x} : StrLess(x, y))

\* the first of the suspicious_patterns of check 11 that some domain token
\* matches, 0 when none does
DomainPatternMatch(tokens) ==
    LET W(t, i, j) == \A k \in i..j : IsWord(Char(t, k))
        p1(t) == \E i \in 1..(Len(t) - 2) :
                    Char(t, i) = Char(t, i + 1) /\ Char(t, i) = Char(t, i + 2)
        p2(t) == \E i \in 1..(Len(t) - 2) :
                    /\ IsWord(Char(t, i))
                    /\ Char(t, i) = Char(t, i + 1) /\ Char(t, i) = Char(t, i + 2)
        p3(t) == \E n \in 2..(Len(t) \div 2) : \E i \in 1..(Len(t) - 2 * n + 1) :
                    /\ W(t, i, i + n - 1)
                    /\ SubSeq(t, i, i + n - 1) = SubSeq(t, i + n, i + 2 * n - 1)
        p4(t) == \E i \in 4..Len(t) : Char(t, i) \in DigitChars /\ W(t, i - 3, i - 1)
        p5(t) == \E i \in 1..(Len(t) - 3) : Char(t, i) \in DigitChars /\ W(t, i + 1, i + 3)
        p6(t) == \E i \in 1..(Len(t) - 5) : \E j \in (i + 3)..(Len(t) - 2) :
                    /\ W(t, i, j + 2)
                    /\ SubSeq(t, i, i + 2) = SubSeq(t, j, j + 2)
        FirstOfHits(hits) == IF hits = {} THEN 0 ELSE CHOOSE n \in hits : \A o \in hits : n <= o
    IN  FirstOfHits({n \in 1..6 :
                        \E t \in tokens :
                            CASE n = 1 -> p1(t) [] n = 2 -> p2(t) [] n = 3 -> p3(t)
                              [] n = 4 -> p4(t) [] n = 5 -> p5(t) [] OTHER -> p6(t)})

DomainPatternReasons ==
    <<"Repeated characters in domain", "Repeated characters in domain",
      "Repeated sequence in domain", "Numbers after brand name",
      "Numbers before brand name", "Repeated words with separators">>

\* a check that sets indicators[key] = flag and, when flag, appends the
\* reason and adds the weight
FlagCheck(key, flag, w, reason) ==
    Check(IF flag THEN Pts(w) ELSE 0, IF flag THEN <<reason>> ELSE <<>>, key :> flag)

\* a FlagCheck whose weight is WEIGHTS[name]
WeightCheck(WEIGHTS, name, key, flag, reason) ==
    Weighted(WEIGHTS, name, flag, FlagCheck(key, flag, WEIGHTS[name], reason))

\* the checks 1) to 11) of analyze_url in the order the code runs them, for
\* one outcome sim of is_similar_to_whitelisted and one order token_list of
\* list(suspicious_tokens_found)
UrlChecks(original, host, path, query, extracted, rules, sim, token_list) ==
    LET Last(parts) == parts[Len(parts)]
        Checks(WEIGHTS, SUSPICIOUS_TLDS, root_domain, suffix_full, suffix_top, url_len,
               sub_count, ent, domain_tokens, pattern) ==
            LET is_gov_or_cctld == suffix_top = "gov" \/ Len(suffix_top) = 2
                tld_flag == suffix_top \in SUSPICIOUS_TLDS /\ ~is_gov_or_cctld
                trusted == sim.is_whitelisted \/ is_gov_or_cctld
            IN  << IF Get(rules, "detect_ip_urls", TRUE)
                   THEN WeightCheck(WEIGHTS, "ip_in_host", "ip_in_host", is_ip(host),
                                  Reason(143, "Host is an IP address (not a domain)", <<>>))
                   ELSE Skip,
                   IF is_gov_or_cctld
                   THEN Check(Pts(TRUSTED_TLD_SCORE),
                              <<Reason(157, "Top-level domain is a trusted government or country-specific TLD",
                                       <<suffix_full>>)>>,
                              "suspicious_tld" :> tld_flag)
                   ELSE WeightCheck(WEIGHTS, "suspicious_tld", "suspicious_tld", tld_flag,
                                  Reason(160, "Top-level domain is suspicious/unusual",
                                         <<extracted.suffix>>)),
                   WeightCheck(WEIGHTS, "long_url", "long_url", url_len > LONG_URL_LENGTH,
                             Reason(167, "URL length is long", <<ToString(url_len)>>)),
                   WeightCheck(WEIGHTS, "many_subdomains", "many_subdomains", sub_count >= 2 /\ ~is_gov_or_cctld,
                             Reason(180, "Excessive subdomains detected", <<ToString(sub_count)>>)),
                   WeightCheck(WEIGHTS, "hyphen_in_domain", "hyphen_in_domain", In("-", extracted.domain) /\ ~is_gov_or_cctld,
                             Reason(188, "Hyphen found in root domain", <<>>)),
                   WeightCheck(WEIGHTS, "punycode", "punycode", contains_punycode(host),
                             Reason(195, "Punycode found in host", <<>>)),
                   WeightCheck(WEIGHTS, "suspicious_chars", "suspicious_chars",
                             Chars(original) \cap SuspiciousUrlChars # {} /\ ~is_gov_or_cctld,
                             Reason(203, "Suspicious characters detected in URL", <<>>)),
                   Weighted(WEIGHTS, "suspicious_path_tokens", token_list # <<>>,
                       Check(IF token_list # <<>>
                             THEN Pts(WEIGHTS["suspicious_path_tokens"]) ELSE 0,
                             IF token_list # <<>>
                             THEN <<Reason(211, "Suspicious path tokens found",
                                           <<Join(Sorted(Range(token_list)), ", ")>>)>>
                             ELSE <<>>,
                             "suspicious_path_tokens" :> token_list)),
                   Weighted(WEIGHTS, "url_length_entropy",
                            ent > ENTROPY_THRESHOLD /\ ~is_gov_or_cctld,
                       Check(IF ent > ENTROPY_THRESHOLD /\ ~is_gov_or_cctld
                             THEN Pts(WEIGHTS["url_length_entropy"]) ELSE 0,
                             IF ent > ENTROPY_THRESHOLD /\ ~is_gov_or_cctld
                             THEN <<Reason(218, "High character entropy in path/query", <<>>)>>
                             ELSE <<>>,
                             "entropy_score" :> ent)),
                   IF trusted
                   THEN Check(Pts(TRUST_OVERRIDE_SCORE),
                              <<Reason(255, "Trust verified: Result is within a secure/official name space",
                                       <<root_domain>>)>>,
                              "known_whitelist" :> sim.is_whitelisted)
                   ELSE IF sim.matched # ""
                   THEN Check(Pts(MIMICRY_SCORE),
                              <<Reason(258, "Alert: Domain mimics trusted brand",
                                       <<root_domain, sim.matched>>)>>,
                              "known_whitelist" :> sim.is_whitelisted)
                   ELSE Check(0, <<>>, "known_whitelist" :> sim.is_whitelisted),
                   IF (sim.is_whitelisted \/ sim.matched # "") /\ pattern > 0
                   THEN Check(Pts(DOMAIN_PATTERN_SCORE),
                              <<Reason(277, "Suspicious domain pattern detected",
                                       <<DomainPatternReasons[pattern]>>)>>,
                              NoIndicators)
                   ELSE Skip,
                   IF sim.is_whitelisted \/ sim.matched # ""
                   THEN FlagCheck("suspicious_domain_token_long",
                                  \E t \in domain_tokens : Len(t) > 20,
                                  Get(WEIGHTS, "suspicious_domain_token_long", 6),
                                  Reason(285, "Unusually long token in domain name", <<>>))
                   ELSE Skip >>
        OfTokens(suffix_full, domain_tokens) ==
            Checks(url_get_weights(rules),
                   {Replace(t, ".", "") : t \in Range(Get(rules, "suspicious_tlds", <<>>))},
                   Join(SelectSeq(<<extracted.domain, extracted.suffix>>,
                                  LAMBDA part : part # ""), "."),
                   suffix_full,
                   Last(Split(suffix_full, ".")),
                   Len(original),
                   Len(SelectSeq(Split(extracted.subdomain, "."),
                                 LAMBDA l : l \notin {"www", "m", ""})),
                   entropy_score(Strip(path \o " " \o query)),
                   domain_tokens,
                   DomainPatternMatch(domain_tokens))
    IN  OfTokens(Lower(extracted.suffix),
                 UNION {Range(Split(t, ".")) : t \in Range(Split(extracted.domain, "-"))})

\* int(min(max(max(0, score), 0), 100)) of a score held in 1/SCALE points
UrlMapped(score) == Min2(Max2(Max2(0, score), 0), Pts(100)) \div SCALE

\* the thresholds compared with > in place of >=
UrlVerdictStrict(mapped) ==
    IF mapped > 65 THEN "phishing"
    ELSE IF mapped > 30 THEN "suspicious"
    ELSE "safe"

UrlVerdict(mapped) ==
    IF mapped >= 65 THEN "phishing"
    ELSE IF mapped >= 30 THEN "suspicious"
    ELSE "safe"

\* the reasons returned as they are, without the "or [sentinel]"
UrlReasonsUnfilled(reasons) == reasons

\* reasons or [sentinel]
UrlReasons(reasons) ==
    IF reasons = <<>> THEN <<Reason(306, SENTINEL_REASON, <<>>)>> ELSE reasons

\* the result returned for an empty or non-string url: the guard is the one
\* check of such a call and its reason the one reason the call produces
UrlInvalidResult(url) ==
    [status |-> "returned", url |-> url, score |-> 100, verdict |-> "phishing",
     reasons |-> <<Reason(105, "No URL provided or wrong type", <<>>)>>,
     indicators |-> "invalid_input" :> TRUE,
     parsed |-> NoIndicators]

Raised(error) == [status |-> "raised", error |-> error]

\* analyze_url(url): the results the call can have (one for each order in
\* which the two sets it iterates can be traversed), or the exception that
\* escapes it
analyze_url(url, rules) ==
    LET Returned(original, parsed, host, path, extracted, root_domain, run) ==
            LET mapped == UrlMapped(run.score)
            IN  IF run.error # ""
                THEN [result |-> Raised(run.error),
                      locals |-> [score |-> 0, reasons |-> <<>>]]
                ELSE
                [result |-> [status |-> "returned",
                             url |-> StrValue(original),
                             score |-> mapped,
                             verdict |-> UrlVerdict(mapped),
                             reasons |-> UrlReasons(run.reasons),
                             indicators |-> run.indicators,
                             parsed |-> [scheme |-> parsed.scheme, host |-> host,
                                         root_domain |-> root_domain,
                                         subdomain |-> extracted.subdomain,
                                         path |-> path, query |-> parsed.query,
                                         port |-> UrlPort(parsed.netloc)]],
                 locals |-> [score |-> run.score, reasons |-> run.reasons]]
        Outcomes(original, parsed, host, path, extracted, root_domain,
                 suspicious_tokens_found) ==
            IF parsed.raised \/ PortRaises(parsed.netloc)
            THEN {[result |-> Raised("ValueError"), locals |-> [score |-> 0, reasons |-> <<>>]]}
            ELSE {Returned(original, parsed, host, path, extracted, root_domain,
                           RunChecks(UrlChecks(original, host, path, parsed.query, extracted,
                                               rules, sim, token_list))) :
                  sim \in is_similar_to_whitelisted(root_domain,
                                                    Range(Get(rules, "trusted_domains", <<>>))),
                  token_list \in Perms(suspicious_tokens_found)}
        OfExtracted(original, parsed, host, path, extracted) ==
            Outcomes(original, parsed, host, path, extracted,
                     Join(SelectSeq(<<extracted.domain, extracted.suffix>>,
                                    LAMBDA part : part # ""), "."),
                     RunsOf(PathTokenChars, Lower(path))
                        \cap Range(Get(rules, "phishing_keywords", <<>>)))
        OfHost(original, parsed, host) ==
            OfExtracted(original, parsed, host, Unquote(parsed.path), tld_extract(host))
        OfParsed(original, parsed) == OfHost(original, parsed, UrlHostname(parsed.netloc))
        OfOriginal(original) ==
            OfParsed(original,
                     urlparse(IF ~In("://", original) THEN "http://" \o original
                              ELSE original))
    IN  IF IsInvalidUrl(url)
        THEN {[result |-> UrlInvalidResult(url),
               locals |-> [score |-> 0, reasons |-> UrlInvalidResult(url).reasons]]}
        ELSE OfOriginal(Strip(url.s))

(***************************************************************************)
(* backend/core_engine/sms_checker.py                                      *)
(***************************************************************************)
\* load_sms_rules(): the built-in rules returned when rules/sms_rules.json
\* does not exist
DefaultSmsRules ==
    [suspicious_numbers |-> <<"+000", "+999", "unknown", "private">>,
     urgent_phrases |-> <<"urgent", "verify now", "your account is locked", "security alert",
                          "click this link", "your bank account is blocked",
                          "reset immediately">>,
     phishing_keywords |-> <<"bank", "login", "verify", "password", "click", "promo", "free",
                             "bonus", "gift">>,
     unexpected_action_phrases |-> <<"send your details", "provide your otp",
                                     "confirm your password", "share your pin">>]

SmsDefaultWeights ==
    [suspicious_sender_number |-> 25, invalid_number_format |-> 10, shortened_url |-> 30,
     urgent_language |-> 20, phishing_keywords |-> 15, info_request |-> 30,
     unexpected_action |-> 25, too_good_to_be_true |-> 15, suspicious_link |-> 25,
     link_sender_mismatch |-> 30, bank_mention_mismatch |-> 15,
     suspicious_sender_name |-> 15, no_contact_info |-> 5, excessive_special_chars |-> 10,
     excessive_caps |-> 10]

\* get_weights(rules)
sms_get_weights(rules) == Get(rules, "weights", SmsDefaultWeights)

\* None, the default of the three parameters of analyze_sms
NoneValue == [type |-> "NoneType"]

\* (x or "").strip()
OrEmpty(x) == IF x.type = "str" THEN Strip(x.s) ELSE ""

is_suspicious_number(number) ==
    /\ number # ""
    /\ \E pattern \in {"+000", "+999", "unknown", "private", "blocked", "anonymous"} :
          In(pattern, Lower(number))

\* re.match(r'^\+?[0-9\s\-\(\)]{7,}$', number) on a stripped number
NumberFormatMatches(number) ==
    LET body == IF StartsWith(number, "+") THEN SubSeq(number, 2, Len(number)) ELSE number
    IN  /\ Len(body) >= 7
        /\ \A i \in 1..Len(body) :
              Char(body, i) \in DigitChars \cup {"-", "(", ")"} \/ IsSpace(Char(body, i))

SHORTENED_DOMAINS ==
    <<"bit.ly", "tinyurl.com", "t.co", "goo.gl", "ow.ly", "is.gd", "short.link",
      "rebrand.ly", "cutt.ly", "buff.ly", "adf.ly", "tiny.cc", "shorturl.at", "rb.gy",
      "bit.do", "shorte.st">>

\* the short domains looked for at the start of the url
IsShortenedUrlPrefix(url) ==
    \E short_domain \in Range(SHORTENED_DOMAINS) : StartsWith(Lower(url), short_domain)

is_shortened_url(url) ==
    LET Short(domain) == \E short_domain \in Range(SHORTENED_DOMAINS) : In(short_domain, domain)
    IN  Short(Replace(Lower(UrlNetloc(url)), "www.", ""))

extract_domain_from_link(url) ==
    LET Rooted(host, extracted) ==
            IF host = "" THEN ""
            ELSE IF extracted.domain # "" /\ extracted.suffix # ""
            THEN extracted.domain \o "." \o extracted.suffix
            ELSE host
    IN  Rooted(Lower(UrlNetloc(url)), tld_extract(Lower(UrlNetloc(url))))

SERVICE_KEYWORDS ==
    <<"bank", "paypal", "amazon", "apple", "google", "microsoft", "netflix", "pay">>

check_sender_link_mismatch(sender, links) ==
    LET Mismatch(sender_lower, link_domains) ==
            /\ sender # "" /\ links # <<>>
            /\ \E kw \in Range(SERVICE_KEYWORDS) : In(kw, sender_lower)
            /\ \E link_domain \in link_domains : \E kw \in Range(SERVICE_KEYWORDS) :
                  In(kw, sender_lower) /\ ~In(kw, link_domain)
    IN  Mismatch(Lower(sender),
                 {extract_domain_from_link(links[i]) : i \in 1..Len(links)} \ {""})

\* len(re.findall(r'\b' + keyword + r'\b', text)) for a keyword of word
\* characters
WordCount(keyword, text) ==
    Cardinality({i \in 1..(Len(text) - Len(keyword) + 1) :
                    /\ SubSeq(text, i, i + Len(keyword) - 1) = keyword
                    /\ (i = 1 \/ ~IsWord(Char(text, i - 1)))
                    /\ (i + Len(keyword) > Len(text) \/ ~IsWord(Char(text, i + Len(keyword))))})

RECURSIVE count_phishing_keywords(_, _)
count_phishing_keywords(text, keywords) ==
    IF keywords = <<>> THEN 0
    ELSE WordCount(Lower(Head(keywords)), Lower(text))
            + count_phishing_keywords(text, Tail(keywords))

\* the characters of the class [!@#$%^&*()_+\-=\[\]{};\':"\\|,.<>?]
SmsSpecialChars ==
    {"!", "@", "#", "$", "%", "^", "&", "*", "(", ")", "_", "+", "-", "=", "[", "]",
     "{", "}", ";", "'", ":", "\"", "\\", "|", ",", ".", "<", ">", "?"}

\* the number of indexes of s whose character is in S
CountIn(S, s) == Cardinality({i \in 1..Len(s) : Char(s, i) \in S})

SMS_INFO_KEYWORDS == <<"otp", "pin", "password", "security code", "verification code", "2fa code">>

SMS_PROMO_KEYWORDS ==
    <<"won", "reward", "free", "congratulations", "gift", "prize", "bonus", "lottery", "promo">>

SMS_BANK_KEYWORDS == <<"bank", "account", "card", "payment", "transaction", "balance">>

SMS_CONTACT_WORDS == <<"call", "contact", "reply", "stop", "unsubscribe">>

SMS_SENDER_PATTERNS ==
    <<"bank", "paypal", "amazon", "apple", "google", "microsoft", "netflix", "uber", "whatsapp">>

\* the score above which the missing contact information is counted
CONTACT_GATE == 20

\* special_char_ratio > 0.15, in hundredths
SPECIAL_RATIO_PERCENT == 15

\* caps_ratio > 0.5 on contents longer than CAPS_MIN_LENGTH, in hundredths
CAPS_RATIO_PERCENT == 50

CAPS_MIN_LENGTH == 10

\* WEIGHTS.get("excessive_special_chars", 10) and WEIGHTS.get("excessive_caps", 8)
EXCESSIVE_SPECIAL_DEFAULT == 10

EXCESSIVE_CAPS_DEFAULT == 8

\* checks 1) to 8) of analyze_sms
SmsChecksBeforeContact(sender, number, content, full_text, links_found, rules) ==
    LET Checks(WEIGHTS, suspicious_number_flag, shortened_found, urgent_found, keyword_count,
               unexpected_found, info_found, promo_found, bank_mentions) ==
            << IF number # ""
               THEN WeightCheck(WEIGHTS, "suspicious_sender_number", "suspicious_sender_number", suspicious_number_flag,
                              Reason(165, "Suspicious sender number", <<number>>))
               ELSE Skip,
               IF number # "" /\ ~NumberFormatMatches(number)
               THEN Weighted(WEIGHTS, "invalid_number_format", TRUE,
                        Check(Pts(WEIGHTS["invalid_number_format"]),
                          <<Reason(171, "Invalid or unusual phone number format", <<>>)>>,
                          "invalid_number_format" :> TRUE))
               ELSE Skip,
               WeightCheck(WEIGHTS, "suspicious_link", "has_links", links_found # <<>>,
                         Reason(179, "Found link(s) in SMS", <<ToString(Len(links_found))>>)),
               IF shortened_found # <<>>
               THEN Weighted(WEIGHTS, "shortened_url", TRUE,
                        Check(Pts(WEIGHTS["shortened_url"]),
                          <<Reason(190, "Shortened URL(s) detected",
                                   <<JoinFirst(shortened_found, 2)>>)>>,
                          "shortened_url" :> TRUE))
               ELSE Skip,
               IF links_found # <<>> /\ sender # "" /\ check_sender_link_mismatch(sender, links_found)
               THEN Weighted(WEIGHTS, "link_sender_mismatch", TRUE,
                        Check(Pts(WEIGHTS["link_sender_mismatch"]),
                          <<Reason(196, "Links in SMS don't match the claimed sender service", <<>>)>>,
                          "link_sender_mismatch" :> TRUE))
               ELSE Skip,
               WeightCheck(WEIGHTS, "urgent_language", "urgent_language", urgent_found # <<>>,
                         Reason(208, "Urgent/fear-based language detected",
                                <<JoinFirst(urgent_found, 3)>>)),
               \* score += min(W * (keyword_count / 2), W * 2)
               Weighted(WEIGHTS, "phishing_keywords", keyword_count > 0,
                   Check(IF keyword_count > 0
                         THEN Min2((Pts(WEIGHTS["phishing_keywords"]) * keyword_count) \div 2,
                                   Pts(WEIGHTS["phishing_keywords"]) * 2)
                         ELSE 0,
                         IF keyword_count > 0
                         THEN <<Reason(217, "Phishing-related keywords detected",
                                       <<ToString(keyword_count)>>)>>
                         ELSE <<>>,
                         "phishing_keywords" :> (keyword_count > 0))),
               WeightCheck(WEIGHTS, "unexpected_action", "unexpected_action", unexpected_found # <<>>,
                         Reason(229, "Requests unexpected action",
                                <<JoinFirst(unexpected_found, 2)>>)),
               WeightCheck(WEIGHTS, "info_request", "info_request", info_found # <<>>,
                         Reason(237, "Requests sensitive information",
                                <<Join(info_found, ", ")>>)),
               WeightCheck(WEIGHTS, "too_good_to_be_true", "too_good_to_be_true", promo_found # <<>>,
                         Reason(245, "Suspicious promotional language",
                                <<JoinFirst(promo_found, 3)>>)),
               IF /\ bank_mentions # <<>>
                  /\ ~\E kw \in {"bank", "financial"} : In(kw, Lower(sender))
               THEN Weighted(WEIGHTS, "bank_mention_mismatch", TRUE,
                        Check(Pts(WEIGHTS["bank_mention_mismatch"]),
                          <<Reason(253, "Mentions banking/financial terms but sender doesn't appear to be a bank",
                                   <<>>)>>,
                          "bank_mention_without_legitimate_sender" :> TRUE))
               ELSE Skip >>
    IN  Checks(sms_get_weights(rules),
               \/ \E pattern \in Range(Get(rules, "suspicious_numbers", <<>>)) :
                     In(Lower(pattern), Lower(number))
               \/ is_suspicious_number(number),
               SelectSeq(links_found, LAMBDA link : is_shortened_url(link)),
               FoundIn(Get(rules, "urgent_phrases", <<>>), full_text),
               count_phishing_keywords(full_text, Get(rules, "phishing_keywords", <<>>)),
               FoundIn(Get(rules, "unexpected_action_phrases", <<>>), full_text),
               FoundIn(SMS_INFO_KEYWORDS, full_text),
               FoundIn(SMS_PROMO_KEYWORDS, full_text),
               FoundIn(SMS_BANK_KEYWORDS, full_text))

\* checks 9) to 11) with the gate of check 9) reading the score that the
\* checks 10) and 11) also add to
SmsChecksFromContactGatedLate(sender, content, full_text, rules, score) ==
    LET Checks(WEIGHTS, has_contact_info, later) ==
            LET contact_flag == ~has_contact_info /\ score + later > Pts(CONTACT_GATE)
            IN  << Weighted(WEIGHTS, "no_contact_info", contact_flag,
                       Check(IF contact_flag THEN Pts(WEIGHTS["no_contact_info"]) ELSE 0,
                             IF contact_flag
                             THEN <<Reason(262, "No contact information or opt-out instructions",
                                           <<>>)>>
                             ELSE <<>>,
                             "no_contact_info" :> ~has_contact_info)),
                   IF sender # "" /\ FoundIn(SMS_SENDER_PATTERNS, Lower(sender)) # <<>>
                   THEN Weighted(WEIGHTS, "suspicious_sender_name", TRUE,
                            Check(Pts(WEIGHTS["suspicious_sender_name"]),
                              <<Reason(273, "Sender name mimics well-known service", <<>>)>>,
                              "suspicious_sender_name" :> TRUE))
                   ELSE Skip,
                   IF /\ content # ""
                      /\ CountIn(SmsSpecialChars, content) * 100
                            > SPECIAL_RATIO_PERCENT * Max2(Len(content), 1)
                   THEN Check(Pts(Get(WEIGHTS, "excessive_special_chars", EXCESSIVE_SPECIAL_DEFAULT)),
                              <<Reason(282, "Unusual formatting with excessive special characters", <<>>)>>,
                              "excessive_special_chars" :> TRUE)
                   ELSE Skip,
                   IF /\ Len(content) > CAPS_MIN_LENGTH
                      /\ CountIn(UpperChars, content) * 100 > CAPS_RATIO_PERCENT * Len(content)
                   THEN Check(Pts(Get(WEIGHTS, "excessive_caps", EXCESSIVE_CAPS_DEFAULT)),
                              <<Reason(290, "Message uses excessive capitalization", <<>>)>>,
                              "excessive_caps" :> TRUE)
                   ELSE Skip >>
        Later(WEIGHTS) == RunChecks(SubSeq(Checks(WEIGHTS, TRUE, 0), 2, 4)).score
    IN  Checks(sms_get_weights(rules), FoundIn(SMS_CONTACT_WORDS, full_text) # <<>>,
               Later(sms_get_weights(rules)))

\* checks 9) to 11) of analyze_sms; score is the score when check 9) starts
SmsChecksFromContact(sender, content, full_text, rules, score) ==
    LET Checks(WEIGHTS, has_contact_info) ==
            LET contact_flag == ~has_contact_info /\ score > Pts(CONTACT_GATE)
            IN  << Weighted(WEIGHTS, "no_contact_info", contact_flag,
                       Check(IF contact_flag THEN Pts(WEIGHTS["no_contact_info"]) ELSE 0,
                             IF contact_flag
                             THEN <<Reason(262, "No contact information or opt-out instructions",
                                           <<>>)>>
                             ELSE <<>>,
                             "no_contact_info" :> ~has_contact_info)),
                   IF sender # "" /\ FoundIn(SMS_SENDER_PATTERNS, Lower(sender)) # <<>>
                   THEN Weighted(WEIGHTS, "suspicious_sender_name", TRUE,
                            Check(Pts(WEIGHTS["suspicious_sender_name"]),
                              <<Reason(273, "Sender name mimics well-known service", <<>>)>>,
                              "suspicious_sender_name" :> TRUE))
                   ELSE Skip,
                   IF /\ content # ""
                      /\ CountIn(SmsSpecialChars, content) * 100
                            > SPECIAL_RATIO_PERCENT * Max2(Len(content), 1)
                   THEN Check(Pts(Get(WEIGHTS, "excessive_special_chars", EXCESSIVE_SPECIAL_DEFAULT)),
                              <<Reason(282, "Unusual formatting with excessive special characters", <<>>)>>,
                              "excessive_special_chars" :> TRUE)
                   ELSE Skip,
                   IF /\ Len(content) > CAPS_MIN_LENGTH
                      /\ CountIn(UpperChars, content) * 100 > CAPS_RATIO_PERCENT * Len(content)
                   THEN Check(Pts(Get(WEIGHTS, "excessive_caps", EXCESSIVE_CAPS_DEFAULT)),
                              <<Reason(290, "Message uses excessive capitalization", <<>>)>>,
                              "excessive_caps" :> TRUE)
                   ELSE Skip >>
    IN  Checks(sms_get_weights(rules), FoundIn(SMS_CONTACT_WORDS, full_text) # <<>>)

\* int(score) without the clamp
SmsMappedUnclamped(score) == score \div SCALE

\* int(min(max(max(0, score), 0), 100)) of a score held in 1/SCALE points
SmsMapped(score) == Min2(Max2(Max2(0, score), 0), Pts(100)) \div SCALE

SmsVerdict(mapped) ==
    IF mapped >= 65 THEN "phishing"
    ELSE IF mapped >= 30 THEN "suspicious"
    ELSE "safe"

\* reasons or [sentinel]
SmsReasons(reasons) ==
    IF reasons = <<>> THEN <<Reason(311, SENTINEL_REASON, <<>>)>> ELSE reasons

analyze_sms(sender0, number0, content0, rules) ==
    LET Returned(sender, number, content, links_found, run) ==
            LET mapped == SmsMapped(run.score)
            IN  IF run.error # ""
                THEN [result |-> Raised(run.error),
                      locals |-> [score |-> 0, reasons |-> <<>>]]
                ELSE
                [result |-> [status |-> "returned",
                             sender |-> sender,
                             number |-> number,
                             content |-> content,
                             score |-> mapped,
                             verdict |-> SmsVerdict(mapped),
                             reasons |-> SmsReasons(run.reasons),
                             indicators |-> run.indicators,
                             links_found |-> links_found],
                 locals |-> [score |-> run.score, reasons |-> run.reasons]]
        Scored(sender, number, content, full_text, links_found, before) ==
            Returned(sender, number, content, links_found,
                     RunChecks(before \o SmsChecksFromContact(sender, content, full_text, rules,
                                                              RunChecks(before).score)))
        OfLinks(sender, number, content, full_text, links_found) ==
            Scored(sender, number, content, full_text, links_found,
                   SmsChecksBeforeContact(sender, number, content, full_text, links_found,
                                          rules))
        OfContent(sender, number, content) ==
            OfLinks(sender, number, content, Lower(content), extract_links(content))
    IN  OfContent(OrEmpty(sender0), OrEmpty(number0), OrEmpty(content0))

(***************************************************************************)
(* rules/url_rules.json, rules/email_rules.json, rules/sms_rules.json      *)
(***************************************************************************)
\* what a rule file can hold: nothing (the file does not exist), text that
\* is not JSON, or one of the JSON objects below
MISSING == "missing"

CORRUPT == "corrupt"

\* a url_rules.json without trusted_domains and phishing_keywords
UrlRulesPartial == [suspicious_tlds |-> <<".xyz">>, detect_ip_urls |-> TRUE]

\* a url_rules.json whose weights table has no ip_in_host
UrlRulesLightWeights ==
    ("weights" :> [k \in DOMAIN UrlDefaultWeights \ {"ip_in_host"} |-> UrlDefaultWeights[k]])
        @@ DefaultUrlRules

\* an email_rules.json without info_request_phrases and dangerous_attachments
EmailRulesPartial ==
    [urgent_phrases |-> <<"urgent">>, suspicious_sender_domains |-> <<"example.com">>]

\* an sms_rules.json without urgent_phrases and unexpected_action_phrases
SmsRulesPartial == [suspicious_numbers |-> <<"+000">>, phishing_keywords |-> <<"bank">>]

\* an sms_rules.json whose weights table has no shortened_url
SmsRulesLightWeights ==
    ("weights" :> [k \in DOMAIN SmsDefaultWeights \ {"shortened_url"} |-> SmsDefaultWeights[k]])
        @@ DefaultSmsRules

RuleFiles ==
    [analyze_url |-> {MISSING, CORRUPT, "partial", "light_weights"},
     analyze_email |-> {MISSING, CORRUPT, "partial"},
     analyze_sms |-> {MISSING, CORRUPT, "partial", "light_weights"}]

\* json.load(f) of a rule file that holds a JSON object
JsonOf(fn, file) ==
    CASE fn = "analyze_url" /\ file = "partial" -> UrlRulesPartial
      [] fn = "analyze_url" /\ file = "light_weights" -> UrlRulesLightWeights
      [] fn = "analyze_email" /\ file = "partial" -> EmailRulesPartial
      [] fn = "analyze_sms" /\ file = "partial" -> SmsRulesPartial
      [] fn = "analyze_sms" /\ file = "light_weights" -> SmsRulesLightWeights

\* the dict the loader returns when open() raises FileNotFoundError
BuiltInRules(fn) ==
    CASE fn = "analyze_url" -> DefaultUrlRules
      [] fn = "analyze_email" -> DefaultEmailRules
      [] fn = "analyze_sms" -> DefaultSmsRules

\* load_url_rules(), load_email_rules(), load_sms_rules(): the rules read
\* from the file, the built-in rules when the file does not exist;
\* json.load raises JSONDecodeError on text that is not JSON and only
\* FileNotFoundError is caught
load_rules(fn, file) ==
    IF file = MISSING THEN [status |-> "loaded", file |-> file, rules |-> BuiltInRules(fn)]
    ELSE IF file = CORRUPT THEN Raised("JSONDecodeError")
    ELSE [status |-> "loaded", file |-> file, rules |-> JsonOf(fn, file)]

NotLoaded == [status |-> "none"]

(***************************************************************************)
(* The calls the model makes                                               *)
(***************************************************************************)
\* the longest attachment list passed to analyze_email
MaxAttachments == 1

RECURSIVE ListsUpTo(_, _)
\* the lists of at most n elements of S
ListsUpTo(S, n) ==
    IF n = 0 THEN {<<>>}
    ELSE ListsUpTo(S, n - 1) \cup {Append(l, x) : l \in ListsUpTo(S, n - 1), x \in S}

EmailLocalParts == {"admin", "security", "googlesecurity", "github-support", "github1",
                    "user1", "my.name", "noreply", "illegal", "the5ers-team", "opayments",
                    "alice"}

EmailDomains == {"google.com", "googie.com", "gogle.com", "the5ers.com", "the5erss.com",
                 "github.com", "githuub.com", "opay.com", "0pay.com", "pay.com",
                 "support.com", "suport.org", "example.com", "gmail.com", "yahoo.com",
                 "mail.google.co.uk", "GitHub.io", "gugle.com", "noreply.org"}

\* sender addresses: local@domain, and addresses without a local-part, without
\* a domain, without "@", with two "@", padded, upper-cased and empty
EmailSenders ==
    {l \o "@" \o d : l \in EmailLocalParts, d \in EmailDomains}
        \cup {"", "random", "@google.com", "admin@", "a@b@googie.com",
              "  Admin@GOOGIE.COM ", "admin@localhost"}

\* the senders that analyze_email is called with together with a subject, a
\* body and attachments
EmailSendersWithMail == {"admin@googie.com", "noreply@suport.org", "user1@pay.com",
                         "security@google.com", "googlesecurity@gmail.com",
                         "my.name@example.com", ""}

EmailSubjects == {"", "URGENT: verify your account", "Lunch on friday"}

EmailBodies == {"",
                "Dear customer, your account is suspended.",
                "Click http://bit.ly/x2 to confirm your password now!",
                "You WON a free prize, open invoice.exe",
                "See https://www.google.com/docs and reply to unsubscribe.",
                "Hi there! Meeting notes: HTTPS://Example.com/a?b=1 <http://gogle.com:80/x>"}

AttachmentNames == {"invoice.EXE", "notes.txt"}

EmailCall(sender, subject, content, attachments) ==
    [fn |-> "analyze_email", sender |-> sender, subject |-> subject, content |-> content,
     attachments |-> attachments]

\* analyze_email(sender=...) for every sender, and full mails for some
EmailCalls ==
    {EmailCall(s, "", "", <<>>) : s \in EmailSenders}
        \cup {EmailCall(s, subj, body, atts) :
                s \in EmailSendersWithMail, subj \in EmailSubjects, body \in EmailBodies,
                atts \in ListsUpTo(AttachmentNames, MaxAttachments)}

\* hosts of the urls: trusted, look-alike, unrelated, suspicious TLD, country
\* and government suffixes, IP literals, ports (valid and not), userinfo
UrlHosts == {"google.com", "www.paypal.com", "a.b.github.com", "xn--pple-43d.apple.com",
             "GOOGLE.com", "gooogle.com", "paypa1.com", "amazon123.com", "example.com",
             "example.org", "evil.xyz", "my-bank.xyz", "a.b.evil.top", "192.168.1.1",
             "[::1]", "[::1", "example.org:8080", "example.org:abc", "example.org:99999",
             "google.com:443", "google.com:99999", "user@google.com", "nimc.gov.ng", "shop.site.co.uk",
             "localhost", "bit.ly", "micro-soft.com", "linkedin.com."}

UrlSchemes == {"", "http://", "https://", "ftp://"}

\* paths and queries: keywords (also percent-encoded and upper-cased), bracket
\* and pipe characters, and a long path over many distinct characters
UrlTails == {"", "/", "/login", "/Verify/LOGIN/login", "/account-security/free-gift?x=1",
             "/%6Cogin", "/a|b", "/mylogin/logins", "?next=login", "/p?mail=a@b.com",
             "/aZ0bY1cX2dW3eV4fU5gT6hS7iR8jQ9kPlOmNnMoLpKqJrIsHtGuFvEwDxCyBzA/login~.!$&'()*+,=:@[]{}^<>|update?secure=1",
             "/index.html#top"}

\* the hosts analyze_url is called with under every scheme and tail
UrlHostsWithTail == {"google.com", "a.b.github.com", "xn--pple-43d.apple.com", "evil.xyz",
                     "nimc.gov.ng", "example.org:abc", "paypa1.com"}

UrlCall(url) == [fn |-> "analyze_url", url |-> url]

\* urls whose host is an IPv4 literal, with a path, a port and a port that
\* is out of range
UrlsOfIpHosts == {"http://192.168.1.1/login", "http://10.0.0.1:8080/p?mail=a@b.com",
                  "8.8.8.8/a|b", "http://192.168.1.1:99999/login"}

\* urls whose domain is a few letters from a trusted domain and ends in a
\* two-letter suffix
UrlsOfCountryLookalikes == {"https://gooogle.co/login", "googl.co", "http://paypa1.ng/Verify"}

\* urls under a two-letter suffix with a hyphen in the domain, a punycode
\* label, and characters of the disallowed class, and under a two-letter
\* suffix of the suspicious_tlds list
UrlsUnderCountrySuffix == {"http://xn--pple-43d.ng/a|b", "my-bank.co.uk/x^y",
                           "http://evil.ru/login"}

\* analyze_url(x) for values that are not strings, for blank strings, for
\* every host, and for some hosts with every scheme and tail
UrlCalls ==
    {UrlCall(v) : v \in NonStrValues}
        \cup {UrlCall(StrValue(s)) : s \in {"", "   ", "http://", "://", "not a url"}}
        \cup {UrlCall(StrValue(s)) : s \in UrlsOfIpHosts \cup UrlsOfCountryLookalikes
                                             \cup UrlsUnderCountrySuffix}
        \cup {UrlCall(StrValue(sc \o h)) : sc \in {"", "https://"}, h \in UrlHosts}
        \cup {UrlCall(StrValue(sc \o h \o t)) :
                sc \in UrlSchemes, h \in UrlHostsWithTail, t \in UrlTails}

SmsSenders == {NoneValue, StrValue(""), StrValue("MyBank"), StrValue("PayPal"),
               StrValue("Mum"), StrValue(" GOOGLE pay "), StrValue("First Financial")}

SmsNumbers == {NoneValue, StrValue("+234 803 123 4567"), StrValue("+0001234567"),
               StrValue("Unknown"), StrValue("12345"), StrValue("(0803) 123-4567"),
               StrValue("+1 555 0100 ext 2")}

SmsContents ==
    {NoneValue, StrValue(""), StrValue("See you at 5"),
     StrValue("URGENT: verify now! Click http://bit.ly/x2 to login. Bank login, free gift!"),
     StrValue("Your OTP is 4521. Do not share your pin. Reply STOP to unsubscribe."),
     StrValue("CONGRATULATIONS YOU WON A PRIZE!!! CALL NOW"),
     StrValue("Pay at https://www.paypal.com/pay or https://test.co/x"),
     StrValue("$$$ !!! ??? ***"),
     StrValue("Your account balance is low, visit http://bank-ng.xyz/login"),
     StrValue("free free free free free bonus"),
     StrValue("Banking update: card payment received."),
     StrValue("verify"),
     StrValue("Reply with the OTP"),
     StrValue("Security alert: your bank account is blocked, send your details and OTP at http://bit.ly/x now"),
     StrValue("Click https://mybank.com.ng/a and confirm your password, security alert"),
     StrValue("Track your parcel at https://bit.ly/x"),
     StrValue("Your invoice is at https://microsoft.com/billing"),
     StrValue("Your bank statement is ready: https://BIT.LY/q7, reply STOP to opt out")}

SmsCall(sender, number, content) ==
    [fn |-> "analyze_sms", sender |-> sender, number |-> number, content |-> content]

\* analyze_sms for every sender and number with some contents, and for every
\* content with some senders and numbers
SmsCalls ==
    {SmsCall(s, n, c) :
        s \in SmsSenders, n \in SmsNumbers,
        c \in {NoneValue, StrValue("See you at 5"),
               StrValue("Pay at https://www.paypal.com/pay or https://test.co/x")}}
        \cup {SmsCall(s, n, c) :
                s \in {NoneValue, StrValue("MyBank"), StrValue("PayPal")},
                n \in {NoneValue, StrValue("+0001234567")},
                c \in SmsContents}

(***************************************************************************)
(* backend/app.py: the statistics of the scans                             *)
(***************************************************************************)
\* scan_stats as the module creates it
InitialScanStats ==
    [email |-> [total |-> 0, safe |-> 0, suspicious |-> 0, phishing |-> 0, latest |-> <<>>],
     sms |-> [total |-> 0, safe |-> 0, suspicious |-> 0, phishing |-> 0, latest |-> <<>>],
     url |-> [total |-> 0, safe |-> 0, suspicious |-> 0, phishing |-> 0, latest |-> <<>>],
     pie |-> [phishing |-> 0, suspicious |-> 0, safe |-> 0]]

\* the length to which the latest list is cut
LATEST_LIMIT == 10

\* s.upper()
Upper(s) ==
    LET UpperChar(c) == IF c \in Chars(LowerLetters)
                        THEN Char(UpperLetters, Find(c, LowerLetters)) ELSE c
    IN  Join([i \in 1..Len(s) |-> UpperChar(Char(s, i))], "")

\* the counter that the verdict is counted under: phishing, suspicious, and
\* safe for every other verdict
VerdictCounter(verdict) ==
    IF Lower(verdict) = "phishing" THEN "phishing"
    ELSE IF Lower(verdict) = "suspicious" THEN "suspicious"
    ELSE "safe"

\* update_stats counting a suspicious verdict under pie["safe"], as
\* daily_stats does
UpdateStatsPieAsDaily(stats, scan_type, verdict, input_value, summary, persistence) ==
    LET PieCounter(counter) == IF counter = "suspicious" THEN "safe" ELSE counter
        Counted(counter) ==
            [stats EXCEPT ![scan_type]["total"] = @ + 1,
                          ![scan_type][counter] = @ + 1,
                          !["pie"][PieCounter(counter)] = @ + 1]
        entry == [type |-> Upper(scan_type),
                  summary |-> IF summary # "" THEN summary
                              ELSE SubSeq(input_value, 1, Min2(50, Len(input_value))),
                  verdict |-> verdict]
        Listed(counted) ==
            [counted EXCEPT ![scan_type]["latest"] =
                SubSeq(<<entry>> \o @, 1, Min2(LATEST_LIMIT, Len(@) + 1))]
    IN  IF scan_type \notin DOMAIN stats
        THEN [stats |-> stats, result |-> [status |-> "returned"]]
        ELSE IF "total" \notin DOMAIN stats[scan_type]
        THEN [stats |-> stats, result |-> Raised("KeyError")]
        ELSE IF persistence = "no_session"
        THEN [stats |-> Counted(VerdictCounter(verdict)),
              result |-> Raised("OperationalError")]
        ELSE [stats |-> Listed(Counted(VerdictCounter(verdict))),
              result |-> [status |-> "returned"]]

\* update_stats(scan_type, verdict, input_value, summary): the new value of
\* scan_stats and how the call ends. persistence is what the database does:
\* the log entry is committed, or the commit fails and is rolled back (the
\* exception is caught), or SessionLocal() itself raises, outside the try
update_stats(stats, scan_type, verdict, input_value, summary, persistence) ==
    LET Counted(counter) ==
            [stats EXCEPT ![scan_type]["total"] = @ + 1,
                          ![scan_type][counter] = @ + 1,
                          !["pie"][counter] = @ + 1]
        entry == [type |-> Upper(scan_type),
                  summary |-> IF summary # "" THEN summary
                              ELSE SubSeq(input_value, 1, Min2(50, Len(input_value))),
                  verdict |-> verdict]
        Listed(counted) ==
            [counted EXCEPT ![scan_type]["latest"] =
                SubSeq(<<entry>> \o @, 1, Min2(LATEST_LIMIT, Len(@) + 1))]
    IN  IF scan_type \notin DOMAIN stats
        THEN [stats |-> stats, result |-> [status |-> "returned"]]
        ELSE IF "total" \notin DOMAIN stats[scan_type]
        THEN [stats |-> stats, result |-> Raised("KeyError")]
        ELSE IF persistence = "no_session"
        THEN [stats |-> Counted(VerdictCounter(verdict)),
              result |-> Raised("OperationalError")]
        ELSE [stats |-> Listed(Counted(VerdictCounter(verdict))),
              result |-> [status |-> "returned"]]

\* no call is running and the rules directory is empty
Init ==
    /\ call = [fn |-> "none"]
    /\ result = [status |-> "none"]
    /\ locals = [score |-> 0, reasons |-> <<>>]
    /\ files = [fn \in DOMAIN RuleFiles |-> MISSING]
    /\ loaded = NotLoaded
    /\ scan_stats = InitialScanStats

\* a caller invokes analyze_email, which finds no rule file, and receives its
\* result
AnalyzeEmail ==
    /\ call.fn = "none"
    /\ files["analyze_email"] = MISSING
    /\ UNCHANGED <<files, loaded, scan_stats>>
    /\ \E c \in EmailCalls :
         \E out \in {analyze_email(c.sender, c.subject, c.content, c.attachments,
                                   DefaultEmailRules)} :
             /\ call' = c
             /\ result' = out.result
             /\ locals' = out.locals

\* a caller invokes analyze_url, which finds no rule file, and receives one
\* of the results it can have, or the exception it raises
AnalyzeUrl ==
    /\ call.fn = "none"
    /\ files["analyze_url"] = MISSING
    /\ UNCHANGED <<files, loaded, scan_stats>>
    /\ \E c \in UrlCalls : \E out \in analyze_url(c.url, DefaultUrlRules) :
         /\ call' = c
         /\ result' = out.result
         /\ locals' = out.locals

\* a caller invokes analyze_sms, which finds no rule file, and receives its
\* result
AnalyzeSms ==
    /\ call.fn = "none"
    /\ files["analyze_sms"] = MISSING
    /\ UNCHANGED <<files, loaded, scan_stats>>
    /\ \E c \in SmsCalls :
         \E out \in {analyze_sms(c.sender, c.number, c.content, DefaultSmsRules)} :
             /\ call' = c
             /\ result' = out.result
             /\ locals' = out.locals

\* the call is over: its result belongs to the caller and the analyzers keep
\* nothing of it
Return ==
    /\ call.fn # "none"
    /\ result.status # "running"
    /\ call' = [fn |-> "none"]
    /\ result' = [status |-> "none"]
    /\ locals' = [score |-> 0, reasons |-> <<>>]
    /\ loaded' = NotLoaded
    /\ UNCHANGED <<files, scan_stats>>

Next == AnalyzeEmail \/ AnalyzeUrl \/ AnalyzeSms \/ Return

Spec == Init /\ [][Next]_vars

(***************************************************************************)
(* The engine while rule files are written                                 *)
(***************************************************************************)
\* the calls made while rule files are written
RulesCalls ==
    {UrlCall(NoneValue), UrlCall(StrValue("http://192.168.1.1/login")),
     UrlCall(StrValue("google.com")), UrlCall(StrValue("http://example.com/login")),
     EmailCall("alice@example.com", "", "", <<>>),
     EmailCall("admin@example.com", "Urgent", "Please confirm your password",
               <<"invoice.EXE">>),
     SmsCall(NoneValue, NoneValue, StrValue("See you at 5")),
     SmsCall(StrValue("MyBank"), StrValue("+0001234567"),
             StrValue("URGENT: verify now https://bit.ly/x"))}

\* the rest of an analyzer after `rules = load_..._rules()`: the results the
\* call can have with these rules
Analysis(c, rules) ==
    CASE c.fn = "analyze_email" ->
            {analyze_email(c.sender, c.subject, c.content, c.attachments, rules)}
      [] c.fn = "analyze_url" -> analyze_url(c.url, rules)
      [] c.fn = "analyze_sms" -> {analyze_sms(c.sender, c.number, c.content, rules)}

\* somebody replaces, corrupts or deletes a rule file, at any moment
WriteRules ==
    /\ \E fn \in DOMAIN RuleFiles : \E file \in RuleFiles[fn] \ {files[fn]} :
          files' = [files EXCEPT ![fn] = file]
    /\ UNCHANGED <<call, result, locals, loaded, scan_stats>>

\* a caller invokes an analyzer, whose first statement loads the rules of its
\* channel; an exception of the loader escapes the analyzer
LoadRules ==
    /\ call.fn = "none"
    /\ \E c \in RulesCalls : \E read \in {load_rules(c.fn, files[c.fn])} :
          /\ call' = c
          /\ loaded' = IF read.status = "raised" THEN NotLoaded ELSE read
          /\ result' = IF read.status = "raised" THEN read ELSE [status |-> "running"]
    /\ UNCHANGED <<locals, files, scan_stats>>

\* the checks run on rules read again from the file as it is when they run
RunAnalysisRereading ==
    /\ result.status = "running"
    /\ \E read \in {load_rules(call.fn, files[call.fn])} :
          IF read.status = "raised"
          THEN result' = read /\ locals' = locals
          ELSE \E out \in Analysis(call, read.rules) :
                   result' = out.result /\ locals' = out.locals
    /\ UNCHANGED <<call, files, loaded, scan_stats>>

\* the analyzer runs its checks on the rules it loaded and the caller
\* receives the result, or the exception the checks raise
RunAnalysis ==
    /\ result.status = "running"
    /\ \E out \in Analysis(call, loaded.rules) :
          /\ result' = out.result
          /\ locals' = out.locals
    /\ UNCHANGED <<call, files, loaded, scan_stats>>

RulesNext == WriteRules \/ LoadRules \/ RunAnalysis \/ Return

RulesSpec == Init /\ [][RulesNext]_vars

(***************************************************************************)
(* Properties of the analyzers                                             *)
(***************************************************************************)
\* the sender's domain and its second-level label, as analyze_email reads them
SenderDomainOf(sender) == extract_domain_from_email(Strip(sender))

SenderSld(sender) == Lower(tld_extract(SenderDomainOf(sender)).domain)

SenderLocalPart(sender) ==
    IF In("@", Strip(sender)) THEN Lower(Split(Strip(sender), "@")[1]) ELSE ""

\* the second-level label is at Levenshtein distance 1 or 2 from a trusted brand
SenderIsTyposquat(sender) ==
    /\ SenderDomainOf(sender) # ""
    /\ \E b \in Range(TRUSTED_BRANDS) : levenshtein_distance(SenderSld(sender), b) \in {1, 2}

SenderSldIsBrand(sender) ==
    SenderDomainOf(sender) # "" /\ SenderSld(sender) \in Range(TRUSTED_BRANDS)

\* the second-level label is farther than distance 2 from every trusted brand
SenderIsUnrelated(sender) ==
    \A b \in Range(TRUSTED_BRANDS) : levenshtein_distance(SenderSld(sender), b) > 2

NonGenericBrands == {"google", "github", "opay", "the5ers"}

\* the local-part holds a non-generic brand that is not the sender's label
ForeignBrandInLocalPart(sender) ==
    \E b \in NonGenericBrands : In(b, SenderLocalPart(sender)) /\ SenderSld(sender) # b

NoBrandInLocalPart(sender) ==
    \A b \in Range(TRUSTED_BRANDS) : ~In(b, SenderLocalPart(sender))

\* the address holds a digit or three of i l 1 | in a row
SenderLooksMisspelt(sender) ==
    LET text == Strip(sender)
    IN  \/ Chars(text) \cap DigitChars # {}
        \/ \E i \in 1..(Len(text) - 2) :
              {Lower(Char(text, j)) : j \in i..(i + 2)} \subseteq {"i", "l", "1", "|"}

SenderDomainIsSuspicious(sender) ==
    SenderDomainOf(sender) \in {"outlook.com", "gmail.com", "yahoo.com", "hotmail.com"}

\* analyze_email was called with the sender alone
SenderOnly ==
    /\ call.fn = "analyze_email"
    /\ call.subject = "" /\ call.content = "" /\ call.attachments = <<>>

\* C1: a sender whose second-level label is at distance 1 or 2 from a trusted
\* brand gets verdict phishing from analyze_email, whatever the subject, the
\* content and the attachments are
C1_TyposquatPriority ==
    (call.fn = "analyze_email" /\ SenderIsTyposquat(call.sender))
        => result.verdict = "phishing"

C1_Witness ==
    /\ call.fn = "analyze_email" /\ SenderIsTyposquat(call.sender)
    /\ call.content # "" /\ call.attachments # <<>>
    /\ result.verdict = "phishing"

\* C2 as stated: a sender whose second-level label is a trusted brand, given
\* alone, never gets verdict phishing, whatever the local-part, and is never
\* scored as a typosquat
C2_ExactBrandNeverPhishing ==
    (SenderOnly /\ SenderSldIsBrand(call.sender))
        => /\ result.verdict # "phishing"
           /\ "typosquatting" \notin DOMAIN result.indicators

\* C2 amended: a sender whose second-level label is a trusted brand, given
\* alone, is never scored as a typosquat, and gets verdict phishing exactly
\* when its local-part holds another non-generic brand and the address holds
\* a digit or a run of three of i l 1 |
C2_ExactBrandSafety ==
    (SenderOnly /\ SenderSldIsBrand(call.sender))
        => /\ "typosquatting" \notin DOMAIN result.indicators
           /\ result.verdict = "phishing"
                 <=> (ForeignBrandInLocalPart(call.sender) /\ SenderLooksMisspelt(call.sender))

C2_Witness ==
    /\ SenderOnly /\ SenderSldIsBrand(call.sender)
    /\ SenderLocalPart(call.sender) # "" /\ ~ForeignBrandInLocalPart(call.sender)
    /\ SenderLooksMisspelt(call.sender)
    /\ result.verdict = "safe"

\* C3 as stated: a sender, given alone, whose local-part holds a non-generic
\* brand that is not its second-level label gets verdict phishing, whatever
\* its domain
C3_LocalPartAlwaysPhishing ==
    (SenderOnly /\ SenderDomainOf(call.sender) # "" /\ ForeignBrandInLocalPart(call.sender))
        => result.verdict = "phishing"

\* C3 amended: such a sender gets a score of at least 55 and a verdict of
\* suspicious or phishing, and phishing exactly when another sender check
\* fires too: a typosquatted domain, a suspicious sender domain, or a digit or
\* run of three of i l 1 | in the address
C3_LocalPartImpersonation ==
    (SenderOnly /\ ForeignBrandInLocalPart(call.sender))
        => /\ result.score >= 55
           /\ result.verdict \in {"suspicious", "phishing"}
           /\ result.verdict = "phishing"
                 <=> \/ SenderIsTyposquat(call.sender)
                     \/ SenderDomainIsSuspicious(call.sender)
                     \/ SenderLooksMisspelt(call.sender)

C3_Witness ==
    /\ SenderOnly /\ ForeignBrandInLocalPart(call.sender)
    /\ SenderDomainIsSuspicious(call.sender)
    /\ result.score = 75 /\ result.verdict = "phishing"

\* C4 as stated: a sender, given alone, whose second-level label is farther
\* than distance 2 from every trusted brand and whose local-part holds no
\* trusted brand gets verdict safe
C4_UnrelatedAlwaysSafe ==
    (SenderOnly /\ SenderIsUnrelated(call.sender) /\ NoBrandInLocalPart(call.sender))
        => result.verdict = "safe"

\* C4 amended: such a sender scores 20 for a suspicious sender domain plus 25
\* for a digit or run of three of i l 1 | in the address, is never phishing,
\* and is safe unless both fire
C4_UnrelatedDomain ==
    (SenderOnly /\ SenderIsUnrelated(call.sender) /\ NoBrandInLocalPart(call.sender))
        => /\ result.score = (IF SenderDomainIsSuspicious(call.sender) THEN 20 ELSE 0)
                                + (IF SenderLooksMisspelt(call.sender) THEN 25 ELSE 0)
           /\ result.verdict # "phishing"
           /\ result.verdict = "safe"
                 <=> ~(SenderDomainIsSuspicious(call.sender) /\ SenderLooksMisspelt(call.sender))

C4_Witness ==
    /\ SenderOnly /\ SenderIsUnrelated(call.sender) /\ NoBrandInLocalPart(call.sender)
    /\ In("@", call.sender) /\ SenderLooksMisspelt(call.sender)
    /\ result.score = 25 /\ result.verdict = "safe"

\* the registrable domain analyze_url derives from a url string
UrlRootDomain(s) ==
    LET original == Strip(s)
        test_url == IF ~In("://", original) THEN "http://" \o original ELSE original
        extracted == tld_extract(UrlHostname(UrlNetloc(test_url)))
    IN  Lower(extracted.domain \o "." \o extracted.suffix)

\* analyze_url was called with a string whose registrable domain is trusted
TrustedUrlCall ==
    /\ call.fn = "analyze_url" /\ call.url.type = "str" /\ call.url.s # ""
    /\ UrlRootDomain(call.url.s) \in Range(DefaultUrlRules.trusted_domains)

\* C5: under the built-in rules, a url whose registrable domain is one of the
\* trusted domains gets verdict safe from analyze_url, whatever other
\* heuristics fire
C5_WhitelistOverride ==
    TrustedUrlCall => (result.status = "returned" /\ result.verdict = "safe")

\* C6: the score of every result of the three analyzers is an integer from 0
\* to 100, also when the sum of the weights is negative, fractional or above
\* 100
C6_ScoreBound ==
    result.status = "returned" => result.score \in 0..100

C6_Witness ==
    /\ call.fn = "analyze_sms"
    /\ locals.score > Pts(100) /\ locals.score % SCALE # 0
    /\ result.score = 100

\* C7: the verdict of a result is phishing when its score is at least 65,
\* suspicious when it is at least 30 and below 65, and safe when it is below 30
C7_VerdictClassification ==
    result.status = "returned"
        => result.verdict = (IF result.score >= 65 THEN "phishing"
                             ELSE IF result.score >= 30 THEN "suspicious"
                             ELSE "safe")

C7_Witness ==
    /\ call.fn = "analyze_url" /\ result.status = "returned"
    /\ "invalid_input" \notin DOMAIN result.indicators
    /\ result.score = 65 /\ result.verdict = "phishing"

C9_MalformedInput ==
    (call.fn = "analyze_url" /\ (call.url.type # "str" \/ call.url = StrValue("")))
        => /\ result.status = "returned"
           /\ result.url = call.url
           /\ result.score = 100 /\ result.verdict = "phishing"
           /\ Len(result.reasons) = 1
           /\ result.reasons[1].text = "No URL provided or wrong type"
           /\ result.indicators = ("invalid_input" :> TRUE)
           /\ DOMAIN result.parsed = {}

C9_Witness ==
    /\ call.fn = "analyze_url" /\ call.url = StrValue("")
    /\ result.status = "returned" /\ result.score = 100

\* the call's arguments are strings (or absent)
StringInputs ==
    /\ call.fn # "none"
    /\ call.fn = "analyze_url" => call.url.type = "str"

\* C10: for string inputs the three analyzers return a result with score,
\* verdict, reasons and indicators; no exception escapes to the caller
C10_NoFatalErrors ==
    StringInputs
        => /\ result.status = "returned"
           /\ {"score", "verdict", "reasons", "indicators"} \subseteq DOMAIN result

(***************************************************************************)
(* Properties of the engine while rule files are written                   *)
(***************************************************************************)
\* C11: a rule file that does not exist or does not hold JSON makes the
\* loader return the built-in rules of the channel, and the error of reading
\* the configuration never reaches the caller of the analyzer
C11_ConfigurationFallback ==
    /\ result.status = "raised" => result.error # "JSONDecodeError"
    /\ (loaded.status = "loaded" /\ loaded.file \in {MISSING, CORRUPT})
          => loaded.rules = BuiltInRules(call.fn)

\* C12: a call that loaded a rule file holding a JSON object returns what it
\* returns with the rules of the file completed, for every key the file
\* omits, by the built-in value of that key
C12_PartialOverride ==
    (loaded.status = "loaded" /\ result.status = "returned")
        => [result |-> result, locals |-> locals]
              \in Analysis(call, loaded.rules @@ BuiltInRules(call.fn))

\* the names an analyzer looks up in its weights table
WeightNames(fn) ==
    CASE fn = "analyze_url" -> DOMAIN UrlDefaultWeights
      [] fn = "analyze_sms" -> DOMAIN SmsDefaultWeights
      [] OTHER -> {}

\* the rules with weight zero for every name their weights table lacks
ZeroFilled(fn, rules) ==
    IF "weights" \in DOMAIN rules
    THEN ("weights" :> (rules["weights"] @@ [k \in WeightNames(fn) |-> 0])) @@ rules
    ELSE rules

\* C13: a call whose rule file supplies a weights table that lacks the name
\* of an indicator that fires does not raise KeyError: it returns what it
\* returns with weight zero for the names the table lacks
C13_AbsentWeight ==
    /\ result.status = "raised" => result.error # "KeyError"
    /\ (loaded.status = "loaded" /\ result.status = "returned")
          => [result |-> result, locals |-> locals]
                \in Analysis(call, ZeroFilled(call.fn, loaded.rules))

(***************************************************************************)
(* Properties of analyze_url and analyze_sms without rule files            *)
(***************************************************************************)
\* the host analyze_url parses out of a url string
UrlHostOf(s) ==
    LET original == Strip(s)
    IN  UrlHostname(UrlNetloc(IF ~In("://", original) THEN "http://" \o original
                              ELSE original))

\* analyze_url was called with a string whose host is an IPv4 literal
IpUrlCall ==
    /\ call.fn = "analyze_url" /\ call.url.type = "str" /\ call.url.s # ""
    /\ IsIPv4(UrlHostOf(call.url.s))

\* a host that is not an IP address and fires no check that depends on the
\* host (example.com does fire one: it is scored as a mimic of apple.com)
PlainHost == "example.org"

\* the url of the call with its host replaced by the plain host
SameUrlOnPlainHost == Replace(call.url.s, UrlHostOf(call.url.s), PlainHost)

\* C14: under the built-in rules, analyze_url called with a url whose host is
\* an IPv4 literal returns indicators.ip_in_host true and a score strictly
\* greater than the score it returns for the same scheme, path and query on a
\* host that is no IP address and fires no host-dependent check
C14_IpHost ==
    IpUrlCall
        => /\ result.status = "returned"
           /\ result.indicators["ip_in_host"] = TRUE
           /\ \A out \in analyze_url(StrValue(SameUrlOnPlainHost), DefaultUrlRules) :
                 /\ out.result.status = "returned"
                 /\ result.score > out.result.score

\* the links to bit.ly in the content of the analyze_sms call
BitlyLinks ==
    IF call.fn = "analyze_sms" /\ call.content.type = "str"
    THEN {link \in Range(extract_links(Strip(call.content.s))) :
             Lower(UrlNetloc(link)) = "bit.ly"}
    ELSE {}

\* full urls of hosts that are no shortening services: one whose text adds
\* nothing to the message, one that carries flagged words
FullUrls == {"https://example.org/track", "https://mybank.com/login/password"}

\* what analyze_sms returns for the call with its bit.ly link replaced by a
\* full url
WithFullUrl(link, full) ==
    analyze_sms(call.sender, call.number,
                StrValue(Replace(call.content.s, link, full)), DefaultSmsRules).result

\* the lines of the reasons of the shortened-url check, of the
\* link-mismatch check and of the missing-contact check
LinkReasonLines == {190, 196, 262}

\* the two links make no difference to the checks that read the text: the
\* reasons of the other checks and the no_contact_info indicator are the same
SameTextChecks(other) ==
    /\ SelectSeq(other.reasons, LAMBDA r : r.line \notin LinkReasonLines)
          = SelectSeq(result.reasons, LAMBDA r : r.line \notin LinkReasonLines)
    /\ other.indicators["no_contact_info"] = result.indicators["no_contact_info"]

C16_Determinism ==
    call.fn # "none"
        => \A out \in Analysis(call, BuiltInRules(call.fn)) :
               out.result = result

\* what the rule file of the running call holds now
RulesOnDisk == load_rules(call.fn, files[call.fn])

\* the answer of the call is an answer of its checks on the rules it loaded
SnapshotUsed ==
    (result.status \in {"returned", "raised"} /\ loaded.status = "loaded")
        => [result |-> result, locals |-> locals] \in Analysis(call, loaded.rules)

\* the checks run only after the rules were loaded
LoadedBeforeChecks == result.status = "running" => loaded.status = "loaded"

\* the rules a call loaded stay as they are until the call returns
LoadedOnce == loaded.status = "loaded" => loaded' \in {loaded, NotLoaded}

\* a step of a call leaves the rule files as they are
CallsKeepFiles ==
    (call' # call \/ result' # result \/ locals' # locals \/ loaded' # loaded)
        => files' = files

\* C17: a call reads the rule file of its channel once, before its checks,
\* and its answer is that of the checks on the rules it read, whatever is
\* written to the rule files while it runs; no step of a call changes a rule
\* file
C17_Snapshot ==
    /\ [](SnapshotUsed /\ LoadedBeforeChecks)
    /\ [][LoadedOnce /\ CallsKeepFiles]_vars

\* a call has answered from the rules it loaded after its rule file was
\* replaced by one on which its checks answer otherwise
C17_Witness ==
    /\ result.status = "returned"
    /\ loaded.status = "loaded"
    /\ files[call.fn] # loaded.file
    /\ RulesOnDisk.status = "loaded"
    /\ [result |-> result, locals |-> locals] \notin Analysis(call, RulesOnDisk.rules)

\* the weight, in points of 1/SCALE, that the check appending the reason adds
\* to the score, with the built-in rules. The guard of analyze_url, the one
\* check of a call it rejects, sets the score 100.
WeightApplied(fn, reason) ==
    CASE fn = "analyze_email" ->
           (182 :> Pts(TYPOSQUAT_SCORE) @@ 208 :> Pts(LOCAL_BRAND_SCORE)
            @@ 216 :> Pts(EMAIL_WEIGHTS.suspicious_sender_domain)
            @@ 224 :> Pts(EMAIL_WEIGHTS.suspicious_link)
            @@ 247 :> Pts(EMAIL_WEIGHTS.link_domain_mismatch)
            @@ 262 :> Pts(EMAIL_WEIGHTS.urgent_language)
            @@ 274 :> Pts(EMAIL_WEIGHTS.info_request)
            @@ 288 :> Pts(EMAIL_WEIGHTS.dangerous_attachment)
            @@ 294 :> Pts(EMAIL_WEIGHTS.dangerous_attachment) \div 2
            @@ 302 :> Pts(EMAIL_WEIGHTS.too_good_to_be_true)
            @@ 311 :> Pts(EMAIL_WEIGHTS.suspicious_subject)
            @@ 319 :> Pts(EMAIL_WEIGHTS.spelling_errors)
            @@ 325 :> Pts(EMAIL_WEIGHTS.generic_greeting))[reason.line]
      [] fn = "analyze_url" ->
           (105 :> Pts(100)
            @@ 143 :> Pts(url_get_weights(DefaultUrlRules).ip_in_host)
            @@ 157 :> Pts(TRUSTED_TLD_SCORE)
            @@ 160 :> Pts(url_get_weights(DefaultUrlRules).suspicious_tld)
            @@ 167 :> Pts(url_get_weights(DefaultUrlRules).long_url)
            @@ 180 :> Pts(url_get_weights(DefaultUrlRules).many_subdomains)
            @@ 188 :> Pts(url_get_weights(DefaultUrlRules).hyphen_in_domain)
            @@ 195 :> Pts(url_get_weights(DefaultUrlRules).punycode)
            @@ 203 :> Pts(url_get_weights(DefaultUrlRules).suspicious_chars)
            @@ 211 :> Pts(url_get_weights(DefaultUrlRules).suspicious_path_tokens)
            @@ 218 :> Pts(url_get_weights(DefaultUrlRules).url_length_entropy)
            @@ 255 :> Pts(TRUST_OVERRIDE_SCORE)
            @@ 258 :> Pts(MIMICRY_SCORE)
            @@ 277 :> Pts(DOMAIN_PATTERN_SCORE)
            @@ 285 :> Pts(Get(url_get_weights(DefaultUrlRules), "suspicious_domain_token_long", 6)))[reason.line]
      [] fn = "analyze_sms" ->
           IF reason.line = 217
           THEN LET keyword_count == CHOOSE n \in 1..Len(DefaultSmsRules.phishing_keywords) :
                                         ToString(n) = reason.args[1]
                IN  Min2((Pts(sms_get_weights(DefaultSmsRules).phishing_keywords) * keyword_count) \div 2,
                         Pts(sms_get_weights(DefaultSmsRules).phishing_keywords) * 2)
           ELSE (165 :> Pts(sms_get_weights(DefaultSmsRules).suspicious_sender_number)
                 @@ 171 :> Pts(sms_get_weights(DefaultSmsRules).invalid_number_format)
                 @@ 179 :> Pts(sms_get_weights(DefaultSmsRules).suspicious_link)
                 @@ 190 :> Pts(sms_get_weights(DefaultSmsRules).shortened_url)
                 @@ 196 :> Pts(sms_get_weights(DefaultSmsRules).link_sender_mismatch)
                 @@ 208 :> Pts(sms_get_weights(DefaultSmsRules).urgent_language)
                 @@ 229 :> Pts(sms_get_weights(DefaultSmsRules).unexpected_action)
                 @@ 237 :> Pts(sms_get_weights(DefaultSmsRules).info_request)
                 @@ 245 :> Pts(sms_get_weights(DefaultSmsRules).too_good_to_be_true)
                 @@ 253 :> Pts(sms_get_weights(DefaultSmsRules).bank_mention_mismatch)
                 @@ 262 :> Pts(sms_get_weights(DefaultSmsRules).no_contact_info)
                 @@ 273 :> Pts(sms_get_weights(DefaultSmsRules).suspicious_sender_name)
                 @@ 282 :> Pts(Get(sms_get_weights(DefaultSmsRules), "excessive_special_chars",
                                  EXCESSIVE_SPECIAL_DEFAULT))
                 @@ 290 :> Pts(Get(sms_get_weights(DefaultSmsRules), "excessive_caps",
                                  EXCESSIVE_CAPS_DEFAULT)))[reason.line]

RECURSIVE SumApplied(_, _)
\* the signed sum of the weights of the checks that appended the reasons
SumApplied(fn, reasons) ==
    IF reasons = <<>> THEN 0
    ELSE SumApplied(fn, Tail(reasons)) + WeightApplied(fn, Head(reasons))

UrlChecked ==
    /\ call.fn = "analyze_url"
    /\ result.status = "returned"
    /\ "invalid_input" \notin DOMAIN result.indicators

\* the weight of the check at the line was applied in the call
Applied(line) == \E i \in 1..Len(locals.reasons) : locals.reasons[i].line = line

\* the registrable domain is a likely misspelling of a trusted domain and is
\* none of the trusted domains: the loop of is_similar_to_whitelisted returns
\* (False, a trusted domain) in whatever order it runs
LikelyMisspelling ==
    LET Probes(domain) ==
            {WhitelistProbe(domain, w) : w \in Range(DefaultUrlRules.trusted_domains)}
    IN  /\ "misspelling" \in Probes(Lower(result.parsed.root_domain))
        /\ "exact" \notin Probes(Lower(result.parsed.root_domain))

\* the public suffix of the host ends in gov or in a label of two letters
UnderGovOrCountrySuffix ==
    LET Top(labels) == labels[Len(labels)]
        Of(suffix_full) == Top(Split(suffix_full, ".")) = "gov"
                             \/ Len(Top(Split(suffix_full, "."))) = 2
    IN  Of(Lower(tld_extract(result.parsed.host).suffix))

\* C19 as stated: every likely misspelling of a trusted domain gets the
\* mimicry weight and not the trust override, and no call gets both
C19_MisspellingAlwaysMimicry ==
    UrlChecked
        => /\ LikelyMisspelling => Applied(258) /\ ~Applied(255)
           /\ ~(Applied(255) /\ Applied(258))

\* C19: a likely misspelling of a trusted domain gets the mimicry weight and
\* not the trust override unless its suffix is gov or a two-letter suffix,
\* when it gets the trust override and not the mimicry weight; no call gets
\* both
C19_TyposquatBranch ==
    UrlChecked
        => /\ (LikelyMisspelling /\ ~UnderGovOrCountrySuffix)
                => Applied(258) /\ ~Applied(255)
           /\ (LikelyMisspelling /\ UnderGovOrCountrySuffix)
                => Applied(255) /\ ~Applied(258)
           /\ ~(Applied(255) /\ Applied(258))

\* the url of a misspelt trusted domain under .com got the mimicry weight
C19_Witness ==
    /\ UrlChecked
    /\ LikelyMisspelling
    /\ ~UnderGovOrCountrySuffix
    /\ Applied(258)
    /\ result.score >= MIMICRY_SCORE

\* the least Levenshtein distance from the registrable domain to a trusted
\* domain is 1 or 2
WithinTypoDistance ==
    LET Distances(domain) ==
            {levenshtein_distance(domain, w) : w \in Range(DefaultUrlRules.trusted_domains)}
    IN  /\ 0 \notin Distances(Lower(result.parsed.root_domain))
        /\ \E d \in Distances(Lower(result.parsed.root_domain)) : is_typo(d)

\* C20: analyze_url classifies the registrable domain as a misspelling of a
\* trusted domain exactly when its least Levenshtein distance to a trusted
\* domain is 1 or 2
C20_LevenshteinContract ==
    UrlChecked => (LikelyMisspelling <=> WithinTypoDistance)

(***************************************************************************)
(* Properties of the checks of analyze_url                                 *)
(***************************************************************************)
\* the number of reasons of the call that the check at the line appended
TimesApplied(line) ==
    Cardinality({i \in 1..Len(locals.reasons) : locals.reasons[i].line = line})

\* check 11 ran: only there is indicators["suspicious_domain_token_long"] set
PatternPassRan == "suspicious_domain_token_long" \in DOMAIN result.indicators

\* C21: the pass over the domain tokens (repeated characters or sequences,
\* digits next to a name, a token longer than 20) runs exactly when the domain
\* is a trusted domain or its suffix is gov or a two-letter suffix; it adds
\* the pattern weight at most once and the long-token weight at most once
C21_TwoPhaseTrust ==
    UrlChecked
        => /\ PatternPassRan
                <=> (result.indicators["known_whitelist"] \/ UnderGovOrCountrySuffix)
           /\ TimesApplied(277) <= 1
           /\ TimesApplied(285) <= 1

\* C22: under a gov suffix or a two-letter suffix none of the hyphen check,
\* the punycode check and the disallowed-characters check adds its weight
C22_TrustSuppressesStructural ==
    (UrlChecked /\ UnderGovOrCountrySuffix)
        => ~Applied(188) /\ ~Applied(195) /\ ~Applied(203)

\* the configured phishing keywords that are tokens of the query string
QueryKeywords ==
    RunsOf(PathTokenChars, Lower(result.parsed.query))
        \cap Range(DefaultUrlRules.phishing_keywords)

\* C23: a phishing keyword that is a token of the query string adds the
\* suspicious_path_tokens weight and is listed in
\* indicators.suspicious_path_tokens
C23_QueryKeywords ==
    UrlChecked
        => \A keyword \in QueryKeywords :
               /\ Applied(211)
               /\ keyword \in Range(result.indicators["suspicious_path_tokens"])

\* the host is an IPv6 literal: only such a host holds a colon once the port
\* is split off
IPv6Host == In(":", result.parsed.host)

\* C24: a url whose host is a bracketed IPv6 literal has ip_in_host set and
\* gets the ip_in_host weight
C24_IPv6Literal ==
    (UrlChecked /\ IPv6Host)
        => result.indicators["ip_in_host"] /\ Applied(143)

\* the public suffix of the host is in the built-in suspicious_tlds list
UnderListedSuffix ==
    ("." \o Lower(tld_extract(result.parsed.host).suffix))
        \in Range(DefaultUrlRules.suspicious_tlds)

\* C28: a url whose public suffix is in the built-in suspicious_tlds list
\* has suspicious_tld set and gets the suspicious_tld weight
C28_ListedSuffixes ==
    (UrlChecked /\ UnderListedSuffix)
        => result.indicators["suspicious_tld"] /\ Applied(160)

\* the host of the link without a leading www.
HostWithoutWww(url) ==
    IF StartsWith(Lower(UrlNetloc(url)), "www.")
    THEN SubSeq(Lower(UrlNetloc(url)), 5, Len(UrlNetloc(url)))
    ELSE Lower(UrlNetloc(url))

\* the host is a shortener domain or a subdomain of one
IsShortenerHost(host) ==
    \E short_domain \in Range(SHORTENED_DOMAINS) :
        host = short_domain \/ EndsWith(host, "." \o short_domain)

\* C29: the shortened_url weight is added only to a message with a link
\* whose host, without www., is a shortener domain or a subdomain of one
C29_ShortenerHosts ==
    (call.fn = "analyze_sms" /\ result.status = "returned" /\ Applied(190))
        => \E link \in Range(result.links_found) : IsShortenerHost(HostWithoutWww(link))

(***************************************************************************)
(* Properties of the indicators                                            *)
(***************************************************************************)
\* the keys that the checks of each analyzer assign in indicators
IndicatorKeys ==
    [analyze_email |->
        {"typosquatting", "brand_impersonation_local", "suspicious_sender_domain",
         "has_links", "link_domain_mismatch", "urgent_language", "info_request",
         "dangerous_attachment", "too_good_to_be_true", "suspicious_subject",
         "spelling_errors", "generic_greeting"},
     analyze_url |->
        {"ip_in_host", "suspicious_tld", "long_url", "many_subdomains",
         "hyphen_in_domain", "punycode", "suspicious_chars",
         "suspicious_path_tokens", "entropy_score", "known_whitelist",
         "suspicious_domain_token_long"},
     analyze_sms |->
        {"suspicious_sender_number", "invalid_number_format", "has_links",
         "shortened_url", "link_sender_mismatch", "urgent_language",
         "phishing_keywords", "unexpected_action", "info_request",
         "too_good_to_be_true", "bank_mention_without_legitimate_sender",
         "no_contact_info", "suspicious_sender_name", "excessive_special_chars",
         "excessive_caps"}]

\* C26: every result of the checks of a channel has all the indicator keys
\* of the channel: a check that does not fire is reported under its key
C26_FixedIndicatorKeys ==
    (result.status = "returned" /\ "invalid_input" \notin DOMAIN result.indicators)
        => DOMAIN result.indicators = IndicatorKeys[call.fn]

(***************************************************************************)
(* Properties of the checks of analyze_sms                                 *)
(***************************************************************************)
\* the body holds none of the contact and opt-out words
NoContactWords ==
    \A word \in Range(SMS_CONTACT_WORDS) : ~In(word, Lower(result.content))

\* the sum of the weights of the checks 1) to 8), those before the contact
\* check
ScoreBeforeContact ==
    SumApplied("analyze_sms", SelectSeq(locals.reasons, LAMBDA r : r.line < 262))

\* C27: the no_contact_info weight is added exactly when the body holds no
\* contact or opt-out word and the weights of the checks before it sum to
\* more than 20; the weights of the later checks do not count
C27_ContactGate ==
    (call.fn = "analyze_sms" /\ result.status = "returned")
        => (Applied(262) <=> (NoContactWords /\ ScoreBeforeContact > Pts(CONTACT_GATE)))

\* a message without contact words whose score passes 20 only through the
\* checks after the contact check, and that did not get the weight
C27_Witness ==
    /\ call.fn = "analyze_sms"
    /\ result.status = "returned"
    /\ NoContactWords
    /\ ScoreBeforeContact <= Pts(CONTACT_GATE)
    /\ SumApplied("analyze_sms", locals.reasons) > Pts(CONTACT_GATE)
    /\ ~Applied(262)

(***************************************************************************)
(* The statistics while scans are counted: calls of update_stats, one at a *)
(* time                                                                    *)
(***************************************************************************)
MaxScans == 11

StatsCall(scan_type, verdict, input_value, summary, persistence) ==
    [fn |-> "update_stats", scan_type |-> scan_type, verdict |-> verdict,
     input_value |-> input_value, summary |-> summary, persistence |-> persistence]

\* scans of the three channels with verdicts in several spellings, with and
\* without summary, with the database working, failing and unreachable, and
\* calls with scan types that are no channel
StatsCalls ==
    {StatsCall("email", "phishing", "bad@paypa1.com", "", "committed"),
     StatsCall("email", "Safe", "alice@example.org", "Hello - Safe", "rolled_back"),
     StatsCall("sms", "SUSPICIOUS", "+0001234567", "", "committed"),
     StatsCall("url", "unknown", "http://evil.xyz/login", "evil.xyz - unknown", "no_session"),
     StatsCall("pie", "safe", "x", "", "committed"),
     StatsCall("file", "phishing", "a.exe", "", "committed")}

\* the number of scans counted so far
ScansCounted == scan_stats.pie.phishing + scan_stats.pie.suspicious + scan_stats.pie.safe

UpdateStats ==
    /\ ScansCounted < MaxScans
    /\ \E c \in StatsCalls :
         \E out \in {update_stats(scan_stats, c.scan_type, c.verdict, c.input_value,
                                  c.summary, c.persistence)} :
            /\ call' = c
            /\ result' = out.result
            /\ scan_stats' = out.stats
    /\ UNCHANGED <<locals, files, loaded>>

StatsNext == UpdateStats

StatsSpec == Init /\ [][StatsNext]_vars

Channels == {"email", "sms", "url"}

\* the counters of every channel add up, the pie counters are the sums over
\* the channels, and no latest list is longer than 10
StatsConsistent ==
    /\ \A channel \in Channels :
          /\ scan_stats[channel].total
                = scan_stats[channel].safe + scan_stats[channel].suspicious
                    + scan_stats[channel].phishing
          /\ Len(scan_stats[channel].latest) <= 10
    /\ \A counter \in {"safe", "suspicious", "phishing"} :
          scan_stats.pie[counter]
            = scan_stats.email[counter] + scan_stats.sms[counter] + scan_stats.url[counter]

\* a call that returns for a channel puts its scan first in the latest list
\* of the channel, before the scans the list held, in their order
MostRecentFirst ==
    (call'.fn = "update_stats" /\ call'.scan_type \in Channels
        /\ result'.status = "returned")
        => /\ Head(scan_stats'[call'.scan_type].latest).verdict = call'.verdict
           /\ Head(scan_stats'[call'.scan_type].latest).type = Upper(call'.scan_type)
           /\ Tail(scan_stats'[call'.scan_type].latest)
                = SubSeq(scan_stats[call'.scan_type].latest, 1,
                         Len(scan_stats'[call'.scan_type].latest) - 1)
           /\ \A other \in Channels \ {call'.scan_type} :
                 scan_stats'[other] = scan_stats[other]

\* a call with a scan type that is no channel changes nothing
UnknownTypeIgnored ==
    (call'.fn = "update_stats" /\ call'.scan_type \notin Channels)
        => scan_stats' = scan_stats

\* C30: after every call of update_stats, whether the scan log is saved or
\* not, each channel's total is the sum of its three verdict counters, each
\* pie counter is the sum of that counter over the channels, each latest
\* list holds at most 10 scans with the most recent first, and a call with
\* an unknown scan type changes no counter and no list
C30_StatsConsistency ==
    /\ []StatsConsistent
    /\ [][MostRecentFirst /\ UnknownTypeIgnored]_vars

\* the eleventh e-mail scan was counted and the list holds ten of them
C30_Witness ==
    /\ scan_stats.email.total > LATEST_LIMIT
    /\ Len(scan_stats.email.latest) = LATEST_LIMIT
    /\ scan_stats.email.phishing > 0
    /\ scan_stats.email.safe > 0

(***************************************************************************)
(* levenshtein_distance on its own: a call with two strings, and its       *)
(* return value                                                            *)
(***************************************************************************)
MaxLevLen == 3

LevAlphabet == {"a", "b"}

RECURSIVE StringsUpTo(_)
\* the strings over LevAlphabet of length at most n
StringsUpTo(n) ==
    IF n = 0 THEN {""}
    ELSE StringsUpTo(n - 1) \cup {s \o c : s \in StringsUpTo(n - 1), c \in LevAlphabet}

\* labels as analyze_email compares them with the brands
LevLabels == {"google", "gogle", "googel", "paypa1", "paypal"}

LevCall(s1, s2) == [fn |-> "levenshtein_distance", s1 |-> s1, s2 |-> s2]

LevCalls ==
    {LevCall(s1, s2) : s1, s2 \in StringsUpTo(MaxLevLen)}
        \cup {LevCall(s1, s2) : s1, s2 \in LevLabels \cup {""}}

LevInit ==
    /\ call \in LevCalls
    /\ result = [status |-> "none"]
    /\ locals = [score |-> 0, reasons |-> <<>>]
    /\ files = [fn \in DOMAIN RuleFiles |-> MISSING]
    /\ loaded = NotLoaded
    /\ scan_stats = InitialScanStats

LevenshteinDistance ==
    /\ result.status = "none"
    /\ result' = [status |-> "returned",
                  value |-> levenshtein_distance(call.s1, call.s2)]
    /\ UNCHANGED <<call, locals, files, loaded, scan_stats>>

LevNext == LevenshteinDistance

LevSpec == LevInit /\ [][LevNext]_vars

RECURSIVE EditDistance(_, _)
\* the least number of single-character insertions, deletions and
\* substitutions that turn a into b
EditDistance(a, b) ==
    IF Len(a) = 0 THEN Len(b)
    ELSE IF Len(b) = 0 THEN Len(a)
    ELSE IF Char(a, 1) = Char(b, 1)
    THEN EditDistance(SubSeq(a, 2, Len(a)), SubSeq(b, 2, Len(b)))
    ELSE 1 + Min2(EditDistance(SubSeq(a, 2, Len(a)), b),
                  Min2(EditDistance(a, SubSeq(b, 2, Len(b))),
                       EditDistance(SubSeq(a, 2, Len(a)), SubSeq(b, 2, Len(b)))))

\* C25: levenshtein_distance returns the edit distance of its arguments,
\* the same in either argument order, and 0 exactly for two equal strings
C25_Levenshtein ==
    result.status = "returned"
        => /\ result.value = EditDistance(call.s1, call.s2)
           /\ result.value = levenshtein_distance(call.s2, call.s1)
           /\ result.value = 0 <=> call.s1 = call.s2

\* the distance 2 returned for a first argument shorter than the second
C25_Witness ==
    /\ result.status = "returned"
    /\ call.s1 # ""
    /\ Len(call.s1) < Len(call.s2)
    /\ result.value = 2

====
